---- MODULE Spec2Model ----
(***************************************************************************)
(* PyK150: the chip database (chipdata.cid parser, ROM-size lookup, Intel  *)
(* HEX size validator) and the GUI's program operation that depends on it. *)
(*                                                                         *)
(* Text is modelled character by character: a Python str is a sequence of  *)
(* one-character strings, so that split, strip, upper, isdigit and int()   *)
(* are computed the way the interpreter computes them.                     *)
(***************************************************************************)
EXTENDS Integers, Sequences, FiniteSets, TLC

(***************************************************************************)
(* Python's str and int built-ins, as far as chip_database.py uses them.   *)
(***************************************************************************)

Min(a, b) == IF a < b THEN a ELSE b

Max(a, b) == IF a > b THEN a ELSE b

LowerCase == <<"a","b","c","d","e","f","g","h","i","j","k","l","m",
               "n","o","p","q","r","s","t","u","v","w","x","y","z">>

UpperCase == <<"A","B","C","D","E","F","G","H","I","J","K","L","M",
               "N","O","P","Q","R","S","T","U","V","W","X","Y","Z">>

DigitChars == <<"0","1","2","3","4","5","6","7","8","9",
                "A","B","C","D","E","F">>

\* The characters of the model in code-point order (what sort() compares).
CodePoints == <<"\t","\n","\r"," ","'","+","-",".","/","0","1","2","3","4",
                "5","6","7","8","9",":","<","=",">","A","B","C","D","E","F",
                "G","H",
                "I","J","K","L","M","N","O","P","Q","R","S","T","U","V","W",
                "X","Y","Z","_","a","b","c","d","e","f","g","h","i","j","k",
                "l","m","n","o","p","q","r","s","t","u","v","w","x","y","z">>

IndexOf(seq, c) ==
    IF \E i \in DOMAIN seq : seq[i] = c
    THEN CHOOSE i \in DOMAIN seq : seq[i] = c
    ELSE 0

Ord(c) == IndexOf(CodePoints, c)

\* str.upper(), one character
LowerToUpper ==
    [c \in {LowerCase[i] : i \in DOMAIN LowerCase} |->
        UpperCase[IndexOf(LowerCase, c)]]

UpperChar(c) == IF c \in DOMAIN LowerToUpper THEN LowerToUpper[c] ELSE c

\* s.upper()
Upper(s) == [i \in DOMAIN s |-> UpperChar(s[i])]

\* c in s
Contains(s, c) == \E i \in DOMAIN s : s[i] = c

\* s.startswith(p)
StartsWith(s, p) == Len(s) >= Len(p) /\ SubSeq(s, 1, Len(p)) = p

\* s[a:b] for 0 <= a <= b
Slice(s, a, b) == SubSeq(s, a + 1, Min(b, Len(s)))

\* s[a:]
SliceFrom(s, a) == SubSeq(s, a + 1, Len(s))

IsSpace(c) == c \in {" ", "\t", "\n", "\r"}

RECURSIVE LStrip(_)
LStrip(s) ==
    IF s # <<>> /\ IsSpace(Head(s)) THEN LStrip(Tail(s)) ELSE s

RECURSIVE RStrip(_)
RStrip(s) ==
    IF s # <<>> /\ IsSpace(s[Len(s)])
    THEN RStrip(SubSeq(s, 1, Len(s) - 1))
    ELSE s

\* s.strip()
Strip(s) == RStrip(LStrip(s))

\* s.rstrip('\r')
RECURSIVE RStripCR(_)
RStripCR(s) ==
    IF s # <<>> /\ s[Len(s)] = "\r"
    THEN RStripCR(SubSeq(s, 1, Len(s) - 1))
    ELSE s

\* s.find(sep, start): the first index from start on (counted from 1)
\* where sep occurs in s, 0 if none
FindFrom(s, sep, start) ==
    LET hits == {i \in start..(Len(s) - Len(sep) + 1) :
                    \A k \in 1..Len(sep) : s[i + k - 1] = sep[k]}
    IN  IF hits = {} THEN 0
        ELSE CHOOSE i \in hits : \A j \in hits : i <= j

Find(s, sep) == FindFrom(s, sep, 1)

\* s.split(sep): the pieces between the occurrences of sep, left to right
RECURSIVE SplitFrom(_, _, _)
SplitFrom(s, sep, start) ==
    LET i == FindFrom(s, sep, start)
    IN  IF i = 0 THEN <<SubSeq(s, start, Len(s))>>
        ELSE <<SubSeq(s, start, i - 1)>> \o SplitFrom(s, sep, i + Len(sep))

Split(s, sep) == SplitFrom(s, sep, 1)

\* s.split(sep, 1) for an s that contains sep
SplitOnce(s, sep) ==
    LET i == Find(s, sep)
    IN  <<SubSeq(s, 1, i - 1), SubSeq(s, i + Len(sep), Len(s))>>

\* s.isdigit()
IsDigit(s) ==
    /\ s # <<>>
    /\ \A i \in DOMAIN s :
          s[i] \in {"0", "1", "2", "3", "4", "5", "6", "7", "8", "9"}

\* the value of one digit in a base, -1 when it is no digit of the base
DigitValue(c, base) ==
    LET i == IndexOf(DigitChars, UpperChar(c))
    IN  IF i > 0 /\ i <= base THEN i - 1 ELSE -1

RECURSIVE DigitsValue(_, _, _)
DigitsValue(s, base, acc) ==
    IF s = <<>> THEN acc
    ELSE LET d == DigitValue(Head(s), base)
         IN  IF d < 0 THEN -1
             ELSE DigitsValue(Tail(s), base, acc * base + d)

\* int(s, base): an optional sign and at least one digit of the base,
\* ValueError otherwise (text without blanks, underscores or a 0x prefix)
PyInt(s, base) ==
    LET signed == s # <<>> /\ Head(s) \in {"+", "-"}
        body   == IF signed THEN Tail(s) ELSE s
        v      == IF body = <<>> THEN -1 ELSE DigitsValue(body, base, 0)
    IN  IF v < 0 THEN [tag |-> "ValueError", val |-> 0]
        ELSE [tag |-> "int",
              val |-> IF signed /\ Head(s) = "-" THEN 0 - v ELSE v]

RECURSIVE NatDigits(_)
NatDigits(n) ==
    IF n < 10 THEN <<DigitChars[n + 1]>>
    ELSE NatDigits(n \div 10) \o <<DigitChars[(n % 10) + 1]>>

\* str(n), the decimal text an f-string puts for an int
Str(n) == IF n < 0 THEN <<"-">> \o NatDigits(0 - n) ELSE NatDigits(n)

\* a < b for str: code point by code point, a proper prefix first
RECURSIVE StrLess(_, _)
StrLess(a, b) ==
    IF b = <<>> THEN FALSE
    ELSE IF a = <<>> THEN TRUE
    ELSE IF Head(a) # Head(b) THEN Ord(Head(a)) < Ord(Head(b))
    ELSE StrLess(Tail(a), Tail(b))

\* dict: d[k] = v
DictSet(d, k, v) ==
    [x \in (DOMAIN d) \cup {k} |-> IF x = k THEN v ELSE d[x]]

\* dict: d.get(k, default)
DictGet(d, k, default) == IF k \in DOMAIN d THEN d[k] ELSE default

(***************************************************************************)
(* ChipDatabase: the catalog and its parser (chip_database.py).            *)
(***************************************************************************)

\* the literals of parse_chipdata and get_chip_rom_size
K_name == <<"n","a","m","e">>

K_INCLUDE == <<"I","N","C","L","U","D","E">>

K_ROMSIZE == <<"R","O","M","S","I","Z","E">>

K_ROMsize == <<"R","O","M","s","i","z","e">>

K_romsize == <<"r","o","m","s","i","z","e">>

K_FAMILY == <<"F","A","M","I","L","Y">>

S_CHIPname == <<"C","H","I","P","n","a","m","e","=">>

S_BlockSep == <<"\n","\n","C","H","I","P","n","a","m","e","=">>

S_LIST == <<"L","I","S","T">>

S_16F887 == <<"1","6","F","8","8","7">>

S_001C00 == <<"0","0","1","C","0","0">>

\* get_chip_family(chip_name) with 'F' looked for before 'C'
FamilyFBeforeC(chip_name) ==
    LET n == Upper(chip_name)
    IN  IF StartsWith(n, <<"1","0","F">>) THEN "PIC10F"
        ELSE IF StartsWith(n, <<"1","2">>) THEN
            IF Contains(n, "F") THEN "PIC12F"
            ELSE IF Contains(n, "C") THEN "PIC12C"
            ELSE "PIC12"
        ELSE IF StartsWith(n, <<"1","6">>) THEN
            IF Contains(n, "F") THEN "PIC16F"
            ELSE IF Contains(n, "C") THEN "PIC16C"
            ELSE "PIC16"
        ELSE IF StartsWith(n, <<"1","8">>) THEN "PIC18F"
        ELSE IF StartsWith(n, <<"3","0","F">>) \/ StartsWith(n, <<"3","3","F">>) THEN "dsPIC"
        ELSE IF StartsWith(n, <<"2","4">>) THEN "PIC24"
        ELSE "Other"

\* get_chip_family(chip_name)
get_chip_family(chip_name) ==
    LET n == Upper(chip_name)
    IN  IF StartsWith(n, <<"1","0","F">>) THEN "PIC10F"
        ELSE IF StartsWith(n, <<"1","2">>) THEN
            IF Contains(n, "C") THEN "PIC12C"
            ELSE IF Contains(n, "F") THEN "PIC12F"
            ELSE "PIC12"
        ELSE IF StartsWith(n, <<"1","6">>) THEN
            IF Contains(n, "C") THEN "PIC16C"
            ELSE IF Contains(n, "F") THEN "PIC16F"
            ELSE "PIC16"
        ELSE IF StartsWith(n, <<"1","8">>) THEN "PIC18F"
        ELSE IF StartsWith(n, <<"3","0","F">>) \/ StartsWith(n, <<"3","3","F">>) THEN "dsPIC"
        ELSE IF StartsWith(n, <<"2","4">>) THEN "PIC24"
        ELSE "Other"

\* chip_families[family].append(chip_name), creating the bucket when new
AddToFamily(families, chip_name) ==
    LET family == get_chip_family(chip_name)
    IN  IF family \in DOMAIN families
        THEN [families EXCEPT ![family] = Append(@, chip_name)]
        ELSE DictSet(families, family, <<chip_name>>)

\* the loop over lines[1:] of one block: KEY=VALUE lines go into chip_info
RECURSIVE ParseProperties(_, _)
ParseProperties(lines, chip_info) ==
    IF lines = <<>> THEN chip_info
    ELSE LET line == Strip(Head(lines))
         IN  IF Contains(line, "=") /\ ~StartsWith(line, S_LIST)
             THEN LET kv    == SplitOnce(line, <<"=">>)
                      key   == Strip(kv[1])
                      value == RStripCR(Strip(kv[2]))
                  IN  ParseProperties(Tail(lines),
                                      DictSet(chip_info, key, value))
             ELSE ParseProperties(Tail(lines), chip_info)

\* "if i == 0": the first block is skipped unless it starts with CHIPname=
SkipsBlock(i, block0) == i = 0 /\ ~StartsWith(block0, S_CHIPname)

\* lines = block.strip().split('\n'), the first block without its CHIPname=
BlockLines(i, block0) ==
    Split(Strip(IF i = 0 /\ StartsWith(block0, S_CHIPname)
                THEN SliceFrom(block0, 9)
                ELSE block0),
          <<"\n">>)

\* chip_name = lines[0].split('\r')[0].strip()
BlockChipName(lines) == Strip(Split(lines[1], <<"\r">>)[1])

\* chip_info = {'name': chip_name} and the properties of lines[1:]
BlockChipInfo(lines) ==
    ParseProperties(Tail(lines), [k \in {K_name} |-> BlockChipName(lines)])

\* chip_info.get('INCLUDE', 'N') == 'Y'
Included(chip_info) == DictGet(chip_info, K_INCLUDE, <<"N">>) = <<"Y">>

\* one pass of the loop over chip_blocks; cat is [chips, chip_families]
ParseBlock(i, block0, cat) ==
    LET lines     == BlockLines(i, block0)
        chip_name == BlockChipName(lines)
        chip_info == BlockChipInfo(lines)
    IN  IF SkipsBlock(i, block0) \/ chip_name = <<>> THEN cat
        ELSE IF Included(chip_info)
        THEN [chips |-> Append(cat.chips, chip_info),
              chip_families |-> AddToFamily(cat.chip_families, chip_name)]
        ELSE cat

RECURSIVE ParseBlocks(_, _, _)
ParseBlocks(chip_blocks, i, cat) ==
    IF i >= Len(chip_blocks) THEN cat
    ELSE ParseBlocks(chip_blocks, i + 1,
                     ParseBlock(i, chip_blocks[i + 1], cat))

\* the record parse_chipdata adds when no chip is named 16F887
pic16f887_info ==
    [k \in {K_name, K_INCLUDE, K_ROMSIZE, K_FAMILY} |->
        IF k = K_name THEN S_16F887
        ELSE IF k = K_INCLUDE THEN <<"Y">>
        ELSE IF k = K_ROMSIZE THEN S_001C00
        ELSE <<"P","I","C","1","6","F">>]

\* "Add PIC16F887 manually if not found in database"
Add16F887(cat) ==
    IF \E i \in DOMAIN cat.chips : Upper(cat.chips[i][K_name]) = S_16F887
    THEN cat
    ELSE [chips |-> Append(cat.chips, pic16f887_info),
          chip_families |-> AddToFamily(cat.chip_families, S_16F887)]

\* list.sort(key=...): stable insertion into a sorted list of
\* [key, item] pairs, after the last element that is not greater
RECURSIVE InsertSorted(_, _)
InsertSorted(sorted, x) ==
    IF sorted = <<>> THEN <<x>>
    ELSE IF StrLess(x.key, sorted[Len(sorted)].key)
    THEN Append(InsertSorted(SubSeq(sorted, 1, Len(sorted) - 1), x),
                sorted[Len(sorted)])
    ELSE Append(sorted, x)

RECURSIVE SortPairs(_)
SortPairs(pairs) ==
    IF pairs = <<>> THEN <<>>
    ELSE InsertSorted(SortPairs(SubSeq(pairs, 1, Len(pairs) - 1)),
                      pairs[Len(pairs)])

\* self.chips.sort(key=lambda x: x['name'])
SortChips(chips) ==
    LET sorted == SortPairs([i \in DOMAIN chips |->
                               [key |-> chips[i][K_name], item |-> chips[i]]])
    IN  [i \in DOMAIN sorted |-> sorted[i].item]

\* self.chip_families[family].sort()
SortNames(names) ==
    LET sorted == SortPairs([i \in DOMAIN names |->
                               [key |-> names[i], item |-> names[i]]])
    IN  [i \in DOMAIN sorted |-> sorted[i].item]

\* "Sort chips and families"
SortCatalog(cat) ==
    [chips |-> SortChips(cat.chips),
     chip_families |-> [f \in DOMAIN cat.chip_families |->
                           SortNames(cat.chip_families[f])]]

EmptyFamilies == [f \in {} |-> <<>>]

EmptyCatalog == [chips |-> <<>>, chip_families |-> EmptyFamilies]

\* the parse, patch and sort of parse_chipdata(data) on the catalog cat
\* with the 16F887 patch made after the sort, not before it
ParseFromPatchLast(cat, data) ==
    Add16F887(SortCatalog(ParseBlocks(Split(data, S_BlockSep), 0, cat)))

\* the parse, patch and sort of parse_chipdata(data) on the catalog cat
ParseFrom(cat, data) ==
    SortCatalog(Add16F887(ParseBlocks(Split(data, S_BlockSep), 0, cat)))

\* the catalog parse_chipdata(data) builds from a non-empty data on a new
\* ChipDatabase
ParsedCatalog(data) == ParseFrom(EmptyCatalog, data)

(***************************************************************************)
(* ChipDatabase: the queries the validator uses.                           *)
(***************************************************************************)

\* an argument that is not a str (None): .upper() on it raises
NotAStr == <<"None">>

NoneResult == [tag |-> "None", val |-> 0]

IntResult(n) == [tag |-> "int", val |-> n]

RaiseResult == [tag |-> "raise", val |-> 0]

\* get_chip_info(chip_name): the index in chips of the first chip whose
\* upper-cased name is the upper-cased chip_name, 0 for None
get_chip_info(chips, chip_name) ==
    LET wanted == Upper(chip_name)
        hits   == {i \in DOMAIN chips : Upper(chips[i][K_name]) = wanted}
    IN  IF hits = {} THEN 0
        ELSE CHOOSE i \in hits : \A j \in hits : i <= j

\* the body of the loop without its isdigit() branch: every value decimal
RomFieldDecimal(rom_size_str) == PyInt(rom_size_str, 10)

\* the body of "for field in [...]" for one field: the int the field gives,
\* ValueError when the loop continues
RomField(rom_size_str) ==
    IF IsDigit(rom_size_str)
    THEN PyInt(rom_size_str, 16)
    ELSE PyInt(rom_size_str, 10)

\* the loop with "break" for "continue": the first field that is in
\* chip_info decides, None when it does not parse
RomFromFirstField(chip_info, fields) ==
    LET present == {k \in DOMAIN fields : fields[k] \in DOMAIN chip_info}
        first   == CHOOSE k \in present : \A j \in present : k <= j
    IN  IF present = {} THEN NoneResult
        ELSE IF RomField(chip_info[fields[first]]).tag = "int"
        THEN RomField(chip_info[fields[first]])
        ELSE NoneResult

\* "for field in ['ROMSIZE', 'ROMsize', 'romsize']": the first field that
\* is in chip_info and parses returns; None when the loop runs out
RECURSIVE RomFromFields(_, _)
RomFromFields(chip_info, fields) ==
    IF fields = <<>> THEN NoneResult
    ELSE IF Head(fields) \in DOMAIN chip_info
              /\ RomField(chip_info[Head(fields)]).tag = "int"
    THEN RomField(chip_info[Head(fields)])
    ELSE RomFromFields(chip_info, Tail(fields))

RomFields == <<K_ROMSIZE, K_ROMsize, K_romsize>>

\* "Fallback: hardcoded ROM sizes for common chips"
rom_sizes ==
    [n \in {<<"1","6","F","6","9","0">>, <<"1","6","F","8","4","A">>, <<"1","6","F","8","4">>, <<"1","6","F","6","2","8","A">>, <<"1","6","F","8","7","7","A">>,
            <<"1","6","F","8","8","7">>, <<"1","2","F","6","7","5">>, <<"1","2","F","6","8","3">>, <<"1","8","F","2","5","5","0">>, <<"1","8","F","4","5","5","0">>,
            <<"1","0","F","2","0","0">>, <<"1","0","F","2","0","2">>} |->
        CASE n = <<"1","6","F","6","9","0">>  -> 4096
          [] n = <<"1","6","F","8","4","A">>  -> 1024
          [] n = <<"1","6","F","8","4">>   -> 1024
          [] n = <<"1","6","F","6","2","8","A">> -> 2048
          [] n = <<"1","6","F","8","7","7","A">> -> 8192
          [] n = <<"1","6","F","8","8","7">>  -> 7168
          [] n = <<"1","2","F","6","7","5">>  -> 1024
          [] n = <<"1","2","F","6","8","3">>  -> 2048
          [] n = <<"1","8","F","2","5","5","0">> -> 16384
          [] n = <<"1","8","F","4","5","5","0">> -> 16384
          [] n = <<"1","0","F","2","0","0">>  -> 256
          [] n = <<"1","0","F","2","0","2">>  -> 512]

\* get_chip_rom_size(chip_name): an int, None, or the AttributeError of
\* chip_name.upper() on an argument that is no str
get_chip_rom_size(chips, chip_name) ==
    IF chip_name = NotAStr THEN RaiseResult
    ELSE LET i == get_chip_info(chips, chip_name)
             fromInfo == IF i = 0 THEN NoneResult
                         ELSE RomFromFields(chips[i], RomFields)
             chip_upper == Upper(chip_name)
         IN  IF fromInfo.tag = "int" THEN fromInfo
             ELSE IF chip_upper \in DOMAIN rom_sizes
             THEN IntResult(rom_sizes[chip_upper])
             ELSE NoneResult

(***************************************************************************)
(* ChipDatabase: the Intel HEX size validator.                             *)
(***************************************************************************)

\* a file of the file system: missing, or there and unreadable (open()
\* raises), or there with its text
MissingFile == [exists |-> FALSE, readable |-> FALSE, data |-> <<>>]

UnreadableFile == [exists |-> TRUE, readable |-> FALSE, data |-> <<>>]

TextFile(data) == [exists |-> TRUE, readable |-> TRUE, data |-> data]

\* "for line in f": the lines of the text, without their line ends
FileLines(data) ==
    LET parts == Split(data, <<"\n">>)
    IN  IF parts[Len(parts)] = <<>>
        THEN SubSeq(parts, 1, Len(parts) - 1)
        ELSE parts

\* "address < 0x2000": the program memory area
ProgramMemoryEnd == 8192

\* the loop's pass without "if address < 0x2000"
HexLineAnyAddress(line0, max_address) ==
    LET Record(line, byte_count, address, record_type) ==
            IF ~StartsWith(line, <<":">>) THEN IntResult(max_address)
            ELSE IF byte_count.tag # "int" \/ address.tag # "int"
                      \/ record_type.tag # "int"
            THEN RaiseResult
            ELSE IF record_type.val = 0 /\ byte_count.val > 0
            THEN IntResult(Max(max_address,
                               (address.val \div 2)
                                   + (byte_count.val \div 2)))
            ELSE IntResult(max_address)
    IN  CHOOSE r \in {Record(line, PyInt(Slice(line, 1, 3), 16),
                                   PyInt(Slice(line, 3, 7), 16),
                                   PyInt(Slice(line, 7, 9), 16)) :
                          line \in {Strip(line0)}} : TRUE

\* one pass of the loop with a running sum in the place of the maximum
HexLineSum(line0, max_address) ==
    LET Record(line, byte_count, address, record_type) ==
            IF ~StartsWith(line, <<":">>) THEN IntResult(max_address)
            ELSE IF byte_count.tag # "int" \/ address.tag # "int"
                      \/ record_type.tag # "int"
            THEN RaiseResult
            ELSE IF record_type.val = 0 /\ byte_count.val > 0
                      /\ address.val < ProgramMemoryEnd
            THEN IntResult(max_address + (address.val \div 2)
                                       + (byte_count.val \div 2))
            ELSE IntResult(max_address)
    IN  CHOOSE r \in {Record(line, PyInt(Slice(line, 1, 3), 16),
                                   PyInt(Slice(line, 3, 7), 16),
                                   PyInt(Slice(line, 7, 9), 16)) :
                          line \in {Strip(line0)}} : TRUE

\* one pass of the loop with the byte address taken for the word address
HexLineNoHalving(line0, max_address) ==
    LET Record(line, byte_count, address, record_type) ==
            IF ~StartsWith(line, <<":">>) THEN IntResult(max_address)
            ELSE IF byte_count.tag # "int" \/ address.tag # "int"
                      \/ record_type.tag # "int"
            THEN RaiseResult
            ELSE IF record_type.val = 0 /\ byte_count.val > 0
                      /\ address.val < ProgramMemoryEnd
            THEN IntResult(Max(max_address,
                               address.val + (byte_count.val \div 2)))
            ELSE IntResult(max_address)
    IN  CHOOSE r \in {Record(line, PyInt(Slice(line, 1, 3), 16),
                                   PyInt(Slice(line, 3, 7), 16),
                                   PyInt(Slice(line, 7, 9), 16)) :
                          line \in {Strip(line0)}} : TRUE

\* one pass of the loop of _parse_hex_file_size: the new max_address, or
\* the ValueError of a field that is not hexadecimal
HexLine(line0, max_address) ==
    LET Record(line, byte_count, address, record_type) ==
            IF ~StartsWith(line, <<":">>) THEN IntResult(max_address)
            ELSE IF byte_count.tag # "int" \/ address.tag # "int"
                      \/ record_type.tag # "int"
            THEN RaiseResult
            ELSE IF record_type.val = 0 /\ byte_count.val > 0
                      /\ address.val < ProgramMemoryEnd
            THEN IntResult(Max(max_address,
                               (address.val \div 2)
                                   + (byte_count.val \div 2)))
            ELSE IntResult(max_address)
    IN  CHOOSE r \in {Record(line, PyInt(Slice(line, 1, 3), 16),
                                   PyInt(Slice(line, 3, 7), 16),
                                   PyInt(Slice(line, 7, 9), 16)) :
                          line \in {Strip(line0)}} : TRUE

RECURSIVE HexLines(_, _)
HexLines(lines, max_address) ==
    IF lines = <<>> THEN IntResult(max_address)
    ELSE CHOOSE out \in {IF r.tag # "int" THEN r
                         ELSE HexLines(Tail(lines), r.val) :
                             r \in {HexLine(Head(lines), max_address)}} : TRUE

\* _parse_hex_file_size(hex_file_path): the size in words, None on any
\* exception (open() failing, a field that is not hexadecimal)
parse_hex_file_size(file) ==
    IF ~file.exists \/ ~file.readable THEN NoneResult
    ELSE CHOOSE out \in {IF r.tag = "int" THEN r ELSE NoneResult :
                             r \in {HexLines(FileLines(file.data), 0)}} : TRUE

\* the messages of validate_hex_file_size: the f-string and what it puts
\* into the braces
Message(fmt, args) == [fmt |-> fmt, args |-> args]

S_NoneTypeUpper == <<"'","N","o","n","e","T","y","p","e","'"," ","o","b","j","e","c","t"," ","h","a","s"," ","n","o"," ","a","t","t","r","i","b","u","t","e"," ","'","u","p","p","e","r","'">>

\* "except Exception as e" returning False for True
ValidateErrorFails(e) ==
    [ok |-> FALSE, opened |-> FALSE,
     message |-> Message("Error validating HEX file: {str(e)}", <<e>>)]

\* "except Exception as e: return True, ..."
ValidateError(e) ==
    [ok |-> TRUE, opened |-> FALSE,
     message |-> Message("Error validating HEX file: {str(e)}", <<e>>)]

\* "if hex_data_size > rom_size" written with >=
HexTooLargeOrEqual(hex_data_size, rom_size) == hex_data_size >= rom_size

\* "if hex_data_size > rom_size"
HexTooLarge(hex_data_size, rom_size) == hex_data_size > rom_size

\* the body of the try of validate_hex_file_size, given what
\* get_chip_rom_size and _parse_hex_file_size return; opened: whether the
\* call got as far as opening the HEX file
Verdict(chip_name, rom_size, hex_data_size) ==
    IF rom_size.tag = "raise"
    THEN ValidateError(S_NoneTypeUpper)
    ELSE IF rom_size.tag = "None"
    THEN [ok |-> TRUE, opened |-> FALSE,
          message |-> Message("Unknown ROM size for {chip_name}",
                              <<chip_name>>)]
    ELSE IF hex_data_size.tag = "None"
    THEN [ok |-> TRUE, opened |-> TRUE,
          message |-> Message("Could not parse HEX file", <<>>)]
    ELSE IF HexTooLarge(hex_data_size.val, rom_size.val)
    THEN [ok |-> FALSE, opened |-> TRUE,
          message |-> Message("HEX file too large: {hex_data_size} words > {rom_size} words ROM capacity",
                              <<Str(hex_data_size.val), Str(rom_size.val)>>)]
    ELSE [ok |-> TRUE, opened |-> TRUE,
          message |-> Message("HEX file size OK: {hex_data_size} words <= {rom_size} words ROM capacity",
                              <<Str(hex_data_size.val), Str(rom_size.val)>>)]

\* validate_hex_file_size with the HEX file parsed before the ROM size is
\* looked up
ValidateParsingFirst(file, chips, chip_name) ==
    CHOOSE v \in {IF hex_data_size.tag = "None"
                  THEN [ok |-> TRUE, opened |-> TRUE,
                        message |-> Message("Could not parse HEX file", <<>>)]
                  ELSE [Verdict(chip_name, rom_size, hex_data_size)
                            EXCEPT !.opened = TRUE] :
                      rom_size \in {get_chip_rom_size(chips, chip_name)},
                      hex_data_size \in {parse_hex_file_size(file)}} : TRUE

\* validate_hex_file_size(hex_file_path, chip_name): (ok, message), and
\* whether the call opened the HEX file
validate_hex_file_size(file, chips, chip_name) ==
    CHOOSE v \in {Verdict(chip_name, rom_size, hex_data_size) :
                      rom_size \in {get_chip_rom_size(chips, chip_name)},
                      hex_data_size \in {parse_hex_file_size(file)}} : TRUE
(***************************************************************************)
(* Config (src/config.py): JSON values and the defaults.                   *)
(* A JSON value is [tag, val] with val its text; an object is a function   *)
(* from keys to values, an array a sequence of values.                     *)
(***************************************************************************)

JStr(s) == [tag |-> "str", val |-> s]

JInt(s) == [tag |-> "int", val |-> s]

JBool(s) == [tag |-> "bool", val |-> s]

JNull == [tag |-> "null", val |-> "null"]

\* a list of strings, written out
JList(s) == [tag |-> "list", val |-> s]

\* str(Path.home())
home == "/home/user"

\* Config.defaults
defaults ==
    [k \in {"last_port", "last_pic_type", "last_hex_file", "last_output_dir",
            "icsp_enabled", "window_geometry", "language", "theme",
            "auto_detect_programmer", "programmer_timeout", "recent_files",
            "max_recent_files", "picpro_path", "auto_find_picpro",
            "picpro_search_paths", "picp_path", "auto_find_picp",
            "picp_search_paths", "selected_backend",
            "backend_auto_detect"} |->
        CASE k = "last_port" -> JStr("")
          [] k = "last_pic_type" -> JStr("12F675")
          [] k = "last_hex_file" -> JStr("")
          [] k = "last_output_dir" -> JStr(home)
          [] k = "icsp_enabled" -> JBool("false")
          [] k = "window_geometry" -> JStr("800x600")
          [] k = "language" -> JStr("en")
          [] k = "theme" -> JStr("default")
          [] k = "auto_detect_programmer" -> JBool("true")
          [] k = "programmer_timeout" -> JInt("5")
          [] k = "recent_files" -> JList("[]")
          [] k = "max_recent_files" -> JInt("10")
          [] k = "picpro_path" -> JStr("")
          [] k = "auto_find_picpro" -> JBool("true")
          [] k = "picpro_search_paths" ->
                JList("[/usr/local/bin/picpro, /usr/bin/picpro, ~/.local/bin/picpro, picpro]")
          [] k = "picp_path" -> JStr("")
          [] k = "auto_find_picp" -> JBool("true")
          [] k = "picp_search_paths" ->
                JList("[/usr/local/bin/picp, /usr/bin/picp, ~/.local/bin/picp, picp]")
          [] k = "selected_backend" -> JStr("picpro")
          [] k = "backend_auto_detect" -> JBool("true")]

\* the config file: missing, or there with what json.load makes of it:
\* an "object" (a dict), an "array" (a list), a "scalar" (a str, a number,
\* true, false, null), "invalid" (no JSON text), "undecodable" (not
\* UTF-8); unreadable when open() raises
NoObject == [k \in {} |-> JNull]

ConfigFile(kind) ==
    [exists |-> TRUE, readable |-> TRUE, kind |-> kind, object |-> NoObject,
     array |-> <<>>, scalar |-> JNull]

ObjectFile(d) == [ConfigFile("object") EXCEPT !.object = d]

ArrayFile(l) == [ConfigFile("array") EXCEPT !.array = l]

ScalarFile(v) == [ConfigFile("scalar") EXCEPT !.scalar = v]

UnreadableConfigFile == [ConfigFile("invalid") EXCEPT !.readable = FALSE]

NoConfigFile ==
    [ConfigFile("invalid") EXCEPT !.exists = FALSE, !.readable = FALSE]

\* no thread of load_chip_database is inside parse_chipdata
NoLoad == [pc |-> "idle", i |-> 0, data |-> <<>>]

\* DeviceDetector.__init__, and a listener that has been told nothing
NoDetection ==
    [pc |-> "idle", is_detecting |-> FALSE, events |-> <<>>, calls |-> <<>>,
     callback |-> FALSE, ports |-> 0, working |-> FALSE, raised |-> FALSE]

(***************************************************************************)
(* The state: the ChipDatabase object, the texts it reads, the last call   *)
(* of its query interface, and the GUI's program operation.                *)
(***************************************************************************)

VARIABLES
    chips,          \* ChipDatabase.chips: the list of chip_info dicts
    chip_families,  \* ChipDatabase.chip_families: family -> list of names
    chipdata,       \* the catalog text to load, as the pieces written to it
    parsed,         \* the data of the last parse_chipdata that rebuilt
    hexFile,        \* the HEX file at hex_file_path
    cache,          \* the file at ChipDatabase.cache_file
    result,         \* what the last step returned, NoCall when nothing
    log_tail,       \* the GUI: the last line of log_text
    threads,        \* the GUI: the program threads started and not finished
    loader,         \* the thread of load_chip_database: where it is in
                    \* parse_chipdata
    config_file,    \* the file at Config.config_file
    config,         \* Config.config
    detector        \* DeviceDetector: is_detecting, the detect() thread,
                    \* the events notified and the callback's calls

vars == <<chips, chip_families, chipdata, parsed, hexFile, cache, result,
          log_tail, threads, loader, config_file, config, detector>>

catalogVars == <<chips, chip_families, parsed>>

guiVars == <<log_tail, threads>>

auxVars == <<loader, config_file, config, detector>>

\* no load running, no config file and the defaults, no detection running
AuxInit ==
    /\ loader = NoLoad
    /\ config_file = NoConfigFile
    /\ config = defaults
    /\ detector = NoDetection

\* the most pieces of catalog text, ROM-size lines of a record, lines of
\* a HEX file, running program threads
MaxChunks == 3

MaxRomLines == 2

MaxHexLines == 2

MaxThreads == 2

RECURSIVE Flatten(_)
Flatten(pieces) ==
    IF pieces = <<>> THEN <<>> ELSE Head(pieces) \o Flatten(Tail(pieces))

\* the catalog text of the validator's runs: chips of 4096 and 8192 words
\* and one whose ROM size is no number
CatalogText ==
    << <<"C","H","I","P","n","a","m","e","=","1","6","F","6","9","0","\n","I","N","C","L","U","D","E","=","Y","\n","R","O","M","s","i","z","e","=","0","0","1","0","0","0","\n">>,
       <<"\n","C","H","I","P","n","a","m","e","=","1","6","F","8","7","7","A","\n","I","N","C","L","U","D","E","=","Y","\n","R","O","M","s","i","z","e","=","0","0","2","0","0","0","\n">>,
       <<"\n","C","H","I","P","n","a","m","e","=","F","O","O","\n","I","N","C","L","U","D","E","=","Y","\n","R","O","M","s","i","z","e","=","0","0","Z","Z","\n">> >>

\* the chip_name arguments of validate_hex_file_size
ChipNames ==
    { <<"1","6","F","6","9","0">>, <<"1","6","f","6","9","0">>, <<"1","6","F","8","7","7","A">>, <<"F","O","O">>, <<"X","Y","Z">>, NotAStr }

\* lines of a HEX file: data records at 0x0000 and 0x1FF0, the largest
\* record below 0x2000, a data record at 0x2700, an end-of-file record
\* with a byte count, a data record without bytes, a record whose address
\* is not hexadecimal
HexRecords ==
    { <<":","1","0","0","0","0","0","0","0","F","F","\r">>,
      <<":","1","0","1","F","F","0","0","0">>,
      <<":","F","F","1","F","F","E","0","0">>,
      <<":","1","0","2","7","0","0","0","0">>,
      <<":","1","0","1","0","0","0","0","1">>,
      <<":","0","0","1","8","0","0","0","0">>,
      <<":","1","0","Z","Z","0","0","0","0">> }

HexText(lines) ==
    Flatten([i \in DOMAIN lines |-> lines[i] \o <<"\n">>])

NoCall == [op |-> "none", chip_name |-> <<>>, value |-> NoneResult]

NoLog == Message("", <<>>)

\* the objects as constructed; the catalog text is there, the HEX file is
\* missing, unreadable or empty
Init ==
    /\ chips = <<>>
    /\ chip_families = EmptyFamilies
    /\ chipdata = CatalogText
    /\ parsed = <<>>
    /\ hexFile \in {MissingFile, UnreadableFile, TextFile(<<>>)}
    /\ cache = MissingFile
    /\ AuxInit
    /\ result = NoCall
    /\ log_tail = NoLog
    /\ threads = 0

\* parse_chipdata(data) without the reset of chips and chip_families
ParseIntoKeeping(data) ==
    LET cat == ParseFrom([chips |-> chips, chip_families |-> chip_families],
                         data)
    IN  IF data = <<>>
        THEN UNCHANGED catalogVars
        ELSE /\ chips' = cat.chips
             /\ chip_families' = cat.chip_families
             /\ parsed' = data

\* parse_chipdata(data) with the reset of chips and chip_families made
\* before the test of data
ParseIntoResetFirst(data) ==
    LET cat == ParseFrom(EmptyCatalog, data)
    IN  IF data = <<>>
        THEN /\ chips' = <<>>
             /\ chip_families' = EmptyFamilies
             /\ parsed' = parsed
        ELSE /\ chips' = cat.chips
             /\ chip_families' = cat.chip_families
             /\ parsed' = data

\* what parse_chipdata(data) does to the ChipDatabase object: nothing for
\* an empty data, else chips and chip_families are reset and rebuilt
ParseInto(data) ==
    LET cat == ParseFrom(EmptyCatalog, data)
    IN  IF data = <<>>
        THEN UNCHANGED catalogVars
        ELSE /\ chips' = cat.chips
             /\ chip_families' = cat.chip_families
             /\ parsed' = data

\* parse_chipdata(data), with the data load_chipdata gives
parse_chipdata ==
    /\ ParseInto(Flatten(chipdata))
    /\ result' = NoCall
    /\ UNCHANGED <<auxVars, chipdata, hexFile, cache, guiVars>>

\* a call of get_chip_rom_size(chip_name)
CallRomSize(chip_name) ==
    /\ result' = [op |-> "get_chip_rom_size", chip_name |-> chip_name,
                  value |-> get_chip_rom_size(chips, chip_name)]
    /\ UNCHANGED <<auxVars, catalogVars, chipdata, hexFile, cache, guiVars>>

\* a call of validate_hex_file_size(hex_file_path, chip_name)
CallValidate(chip_name) ==
    /\ result' = [op |-> "validate_hex_file_size", chip_name |-> chip_name,
                  value |-> validate_hex_file_size(hexFile, chips, chip_name)]
    /\ UNCHANGED <<auxVars, catalogVars, chipdata, hexFile, cache, guiVars>>

\* the HEX file gets one more line, after its first p lines
WriteHexLine(l, p) ==
    /\ hexFile.exists /\ hexFile.readable
    /\ \E lines \in {FileLines(hexFile.data)} :
        /\ Len(lines) < MaxHexLines
        /\ p \in 0..Len(lines)
        /\ hexFile' = TextFile(HexText(SubSeq(lines, 1, p) \o <<l>>
                                           \o SubSeq(lines, p + 1, Len(lines))))
    /\ result' = NoCall
    /\ UNCHANGED <<auxVars, catalogVars, chipdata, cache, guiVars>>

Next ==
    \/ parse_chipdata
    \/ \E chip_name \in ChipNames : CallValidate(chip_name)
    \/ \E l \in HexRecords, p \in 0..MaxHexLines : WriteHexLine(l, p)

Spec == Init /\ [][Next]_vars

(***************************************************************************)
(* The parser on growing catalog text.                                     *)
(***************************************************************************)

\* pieces of chipdata.cid text: a blank line, records, two records of one
\* name, KEY=VALUE lines
Chunks ==
    { <<"\n">>,
      <<"C","H","I","P","n","a","m","e","=","1","8","F","2","5","5","0","\n","I","N","C","L","U","D","E","=","Y","\n","\n","C","H","I","P","n","a","m","e","=","1","8","F","2","5","5","0","\n","I","N","C","L","U","D","E","=","Y","\n">>,
      <<"C","H","I","P","n","a","m","e","=","1","6","F","8","8","7","\n","I","N","C","L","U","D","E","=","Y","\n">>,
      <<"C","H","I","P","n","a","m","e","=","1","6","f","8","8","7","\r","\n","I","N","C","L","U","D","E","=","Y","\r","\n">>,
      <<"C","H","I","P","n","a","m","e","=","1","6","F","8","8","7","\n","I","N","C","L","U","D","E","=","N","\n">>,
      <<"C","H","I","P","n","a","m","e","=","1","2","F","6","7","5","\n","I","N","C","L","U","D","E","=","Y","\n","L","I","S","T","1"," ","F","U","S","E","1"," ","W","D","T","=","3","F","F","F","\n">>,
      <<"C","H","I","P","n","a","m","e","=","1","2","F","6","7","5","\n">>,
      <<"n","a","m","e","=","1","6","F","8","8","7","\n">> }

InitParse ==
    /\ chips = <<>>
    /\ chip_families = EmptyFamilies
    /\ chipdata = <<>>
    /\ parsed = <<>>
    /\ hexFile = MissingFile
    /\ cache = MissingFile
    /\ AuxInit
    /\ result = NoCall
    /\ log_tail = NoLog
    /\ threads = 0

\* the catalog text grows by a piece
WriteChunk(c) ==
    /\ Len(chipdata) < MaxChunks
    /\ chipdata' = Append(chipdata, c)
    /\ result' = NoCall
    /\ UNCHANGED <<auxVars, catalogVars, hexFile, cache, guiVars>>

NextParse ==
    \/ \E c \in Chunks : WriteChunk(c)
    \/ parse_chipdata

SpecParse == InitParse /\ [][NextParse]_vars

(***************************************************************************)
(* The ROM-size lookup on records with every mix of ROM-size fields.       *)
(***************************************************************************)

\* the first lines of a record: a chip of the fallback table, and one that
\* is not in it
RecordHeads ==
    { <<"C","H","I","P","n","a","m","e","=","1","6","F","8","4","A","\n","I","N","C","L","U","D","E","=","Y","\n">>,
      <<"C","H","I","P","n","a","m","e","=","F","O","O","\n","I","N","C","L","U","D","E","=","Y","\n">> }

\* ROM-size lines: all digits, hexadecimal with a letter, no number,
\* signed decimal
RomLines ==
    { <<"R","O","M","S","I","Z","E","=","0","0","1","0","0","0","\n">>,
      <<"R","O","M","S","I","Z","E","=","0","0","1","C","0","0","\n">>,
      <<"R","O","M","S","I","Z","E","=","n","/","a","\n">>,
      <<"R","O","M","s","i","z","e","=","0","0","0","8","0","0","\n">>,
      <<"r","o","m","s","i","z","e","=","+","1","2","\n">> }

\* the chip_name arguments of get_chip_rom_size
RomChipNames == { <<"1","6","F","8","4","A">>, <<"1","6","f","8","4","a">>, <<"F","O","O">>, <<"1","6","F","8","8","7">> }

InitRom ==
    /\ chips = <<>>
    /\ chip_families = EmptyFamilies
    /\ \E head \in RecordHeads : chipdata = <<head>>
    /\ parsed = <<>>
    /\ hexFile = MissingFile
    /\ cache = MissingFile
    /\ AuxInit
    /\ result = NoCall
    /\ log_tail = NoLog
    /\ threads = 0

\* the record of the catalog text gets one more ROM-size line
WriteRomLine(l) ==
    /\ Len(chipdata) <= MaxRomLines
    /\ chipdata' = Append(chipdata, l)
    /\ result' = NoCall
    /\ UNCHANGED <<auxVars, catalogVars, hexFile, cache, guiVars>>

NextRom ==
    \/ \E l \in RomLines : WriteRomLine(l)
    \/ parse_chipdata
    \/ \E chip_name \in RomChipNames : CallRomSize(chip_name)

SpecRom == InitRom /\ [][NextRom]_vars

(***************************************************************************)
(* The GUI: the program operation (pyk150_gui.py).                         *)
(***************************************************************************)

\* the values of selected_pic_type and selected_port
PicTypes == { <<"1","6","F","6","9","0">>, <<"1","6","F","8","7","7","A">>, <<"X","Y","Z">>, <<>> }

Ports == { <<"C","O","M","3">>, <<>> }

\* validate_inputs("program"): a port and a chip are selected, a HEX file
\* is selected and exists, the port opens
validate_inputs(port, port_opens, chip_type, hex_selected) ==
    /\ port # <<>>
    /\ chip_type # <<>>
    /\ hex_selected
    /\ hexFile.exists
    /\ port_opens

\* program_chip() without the "return" after a failed validation
ProgramWithoutReturn(port, port_opens, chip_type, hex_selected) ==
    /\ threads < MaxThreads
    /\ IF ~validate_inputs(port, port_opens, chip_type, hex_selected)
       THEN UNCHANGED guiVars
       ELSE \E v \in {validate_hex_file_size(hexFile, chips, chip_type)} :
                /\ log_tail' = Message(IF ~v.ok
                                       THEN "HEX file validation failed: {message}"
                                       ELSE "HEX file validation: {message}",
                                       <<v.message>>)
                /\ threads' = threads + 1
    /\ UNCHANGED <<auxVars, catalogVars, chipdata, hexFile, cache, result>>

\* program_chip(): the HEX size validation, then build_command and
\* run_command_async unless the validation failed
program_chip(port, port_opens, chip_type, hex_selected) ==
    /\ threads < MaxThreads
    /\ IF ~validate_inputs(port, port_opens, chip_type, hex_selected)
       THEN UNCHANGED guiVars
       ELSE \E v \in {validate_hex_file_size(hexFile, chips, chip_type)} :
                IF hex_selected /\ chip_type # <<>> /\ ~v.ok
                THEN /\ log_tail' = Message("HEX file validation failed: {message}",
                                            <<v.message>>)
                     /\ threads' = threads
                ELSE /\ log_tail' = IF hex_selected /\ chip_type # <<>>
                                    THEN Message("HEX file validation: {message}",
                                                 <<v.message>>)
                                    ELSE log_tail
                     /\ threads' = threads + 1
    /\ UNCHANGED <<auxVars, catalogVars, chipdata, hexFile, cache, result>>

\* what the thread of run_command_async logs last, by how the backend ends
Outcomes ==
    { "{operation.capitalize()} completed successfully!",
      "{operation.capitalize()} completed with errors (see output above)",
      "{operation.capitalize()} failed with return code {result.returncode}",
      "{operation.capitalize()} timed out",
      "{backend_name} command not found. Please install {backend_name} first.",
      "Error: {str(e)}" }

\* run(), the thread of run_command_async: the backend subprocess runs
run(outcome) ==
    /\ threads > 0
    /\ threads' = threads - 1
    /\ log_tail' = Message(outcome, <<>>)
    /\ UNCHANGED <<auxVars, catalogVars, chipdata, hexFile, cache, result>>

\* load(), the thread of load_chip_database: initialize() parses the text
\* load_chipdata gives, and fails on an empty one
load_chip_database ==
    /\ ParseInto(Flatten(chipdata))
    /\ log_tail' = IF Flatten(chipdata) # <<>>
                   THEN Message("Loaded {len(self.pic_types)} PIC chips from database",
                                <<Str(Len(chips'))>>)
                   ELSE Message("Using fallback chip list", <<>>)
    /\ UNCHANGED <<auxVars, chipdata, hexFile, cache, result, threads>>

\* the HEX files of the GUI's runs: a small program, the largest estimate
GuiHexRecords == { <<":","1","0","0","0","0","0","0","0","F","F","\r">>, <<":","F","F","1","F","F","E","0","0">> }

NextGui ==
    \/ load_chip_database
    \/ \E l \in GuiHexRecords : WriteHexLine(l, 0)
    \/ \E port \in Ports, port_opens \in BOOLEAN, chip_type \in PicTypes,
          hex_selected \in BOOLEAN :
            program_chip(port, port_opens, chip_type, hex_selected)
    \/ \E outcome \in Outcomes : run(outcome)

SpecGui == Init /\ [][NextGui]_vars

(***************************************************************************)
(* The HEX size validator: properties (Spec, SpecGui).                     *)
(***************************************************************************)

\* the last step was a call of validate_hex_file_size
Validated == result.op = "validate_hex_file_size"

\* C1: validate_hex_file_size fails exactly when the chip's ROM capacity is
\* resolved, the HEX file is parsed and the estimate is strictly greater
\* than the capacity, so an estimate equal to the capacity passes; the fail
\* message and the 'fits' message hold the estimate and the capacity.
C1_FailsExactlyWhenTooLarge ==
    Validated =>
        LET rom   == get_chip_rom_size(chips, result.chip_name)
            est   == parse_hex_file_size(hexFile)
            v     == result.value
            sized == rom.tag = "int" /\ est.tag = "int"
        IN  /\ ~v.ok <=> (sized /\ est.val > rom.val)
            /\ sized =>
                /\ v.message.fmt =
                     IF est.val > rom.val
                     THEN "HEX file too large: {hex_data_size} words > {rom_size} words ROM capacity"
                     ELSE "HEX file size OK: {hex_data_size} words <= {rom_size} words ROM capacity"
                /\ v.message.args = <<Str(est.val), Str(rom.val)>>

\* a file of 4222 words fails on a chip of 4096 words
C1_Witness ==
    /\ Validated
    /\ ~result.value.ok
    /\ result.value.message.args = << <<"4","2","2","2">>, <<"4","0","9","6">> >>

\* the log lines of program_chip
ProgramLogs ==
    {"HEX file validation failed: {message}", "HEX file validation: {message}"}

\* C2: in the program operation a step of program_chip on a HEX file and
\* chip for which validate_hex_file_size fails starts no program thread,
\* and a program thread is started only by a step that logs the pass
\* outcome validate_hex_file_size returns for the HEX file and a chip.
C2_ValidationBeforeProgram ==
    [][ /\ \A port \in Ports, port_opens \in BOOLEAN,
              chip_type \in PicTypes, hex_selected \in BOOLEAN :
              ( /\ validate_inputs(port, port_opens, chip_type, hex_selected)
                /\ ~validate_hex_file_size(hexFile, chips, chip_type).ok
                /\ log_tail'.fmt \in ProgramLogs
                /\ program_chip(port, port_opens, chip_type, hex_selected) )
              => threads' = threads
        /\ threads' > threads =>
              /\ log_tail'.fmt = "HEX file validation: {message}"
              /\ \E chip_type \in PicTypes \ {<<>>} :
                   \E v \in {validate_hex_file_size(hexFile, chips, chip_type)} :
                       v.ok /\ log_tail'.args = <<v.message>>
      ]_vars

\* program_chip has logged a failed validation and no thread runs
C2_Witness ==
    /\ log_tail.fmt = "HEX file validation failed: {message}"
    /\ threads = 0
    /\ ~validate_hex_file_size(hexFile, chips, <<"1","6","F","6","9","0">>).ok

\* the words a record reaches when it is a data record with bytes:
\* (address div 2) + (byte_count div 2), wherever its address is
RecordWords(line0) ==
    LET line        == Strip(line0)
        byte_count  == PyInt(Slice(line, 1, 3), 16)
        address     == PyInt(Slice(line, 3, 7), 16)
        record_type == PyInt(Slice(line, 7, 9), 16)
    IN  IF /\ StartsWith(line, <<":">>)
           /\ byte_count.tag = "int" /\ address.tag = "int"
           /\ record_type.tag = "int"
           /\ record_type.val = 0 /\ byte_count.val > 0
        THEN (address.val \div 2) + (byte_count.val \div 2)
        ELSE 0

\* the words the highest data record of a file implies
ImpliedWords(file) ==
    LET lines == FileLines(file.data)
    IN  IF lines = <<>> THEN 0
        ELSE CHOOSE w \in {RecordWords(lines[i]) : i \in DOMAIN lines} :
                 \A i \in DOMAIN lines : RecordWords(lines[i]) <= w

C4_UnknownCapacityPasses ==
    ( /\ Validated
      /\ get_chip_rom_size(chips, result.chip_name).tag = "None" ) =>
        /\ result.value.ok
        /\ ~result.value.opened
        /\ result.value.message =
             Message("Unknown ROM size for {chip_name}", <<result.chip_name>>)
        /\ result.value.message.fmt #
             "HEX file size OK: {hex_data_size} words <= {rom_size} words ROM capacity"

\* a chip that is nowhere, and a HEX file of 4222 words
C4_Witness ==
    /\ Validated
    /\ result.chip_name = <<"X","Y","Z">>
    /\ parse_hex_file_size(hexFile) = IntResult(4222)
    /\ result.value.ok
    /\ result.value.message.fmt = "Unknown ROM size for {chip_name}"

\* C5: validate_hex_file_size returns an outcome for every HEX file and
\* chip_name: an exception while the capacity is resolved and a HEX file
\* that is missing, unreadable or malformed give a pass with a diagnostic
\* message, and only a file that was sized against a capacity can fail.
C5_ErrorsPass ==
    Validated =>
        LET rom == get_chip_rom_size(chips, result.chip_name)
            est == parse_hex_file_size(hexFile)
            v   == result.value
        IN  /\ v.ok \in BOOLEAN
            /\ rom.tag = "raise" =>
                 v.ok /\ v.message.fmt = "Error validating HEX file: {str(e)}"
            /\ (rom.tag = "int" /\ est.tag = "None") =>
                 v.ok /\ v.message.fmt = "Could not parse HEX file"
            /\ ~v.ok => (rom.tag = "int" /\ est.tag = "int")

\* chip_name None: the AttributeError of its upper() became a pass
C5_Witness ==
    /\ Validated
    /\ result.chip_name = NotAStr
    /\ ~hexFile.exists
    /\ result.value.ok
    /\ result.value.message.fmt = "Error validating HEX file: {str(e)}"

\* a record that is well formed and of another type than 00, or without
\* bytes, or at an address from 0x2000 on
NotQualifying(line0) ==
    LET line        == Strip(line0)
        byte_count  == PyInt(Slice(line, 1, 3), 16)
        address     == PyInt(Slice(line, 3, 7), 16)
        record_type == PyInt(Slice(line, 7, 9), 16)
    IN  /\ StartsWith(line, <<":">>)
        /\ byte_count.tag = "int" /\ address.tag = "int"
        /\ record_type.tag = "int"
        /\ \/ record_type.val # 0
           \/ byte_count.val = 0
           \/ address.val >= 8192

\* lines with l after the first p of them
InsertLine(lines, p, l) ==
    SubSeq(lines, 1, p) \o <<l>> \o SubSeq(lines, p + 1, Len(lines))

\* C6: adding to a HEX file, at any place, a record of another type than
\* 00, a record without bytes or a record at an address from 0x2000 on
\* leaves the size estimate as it was.
C6_OnlyQualifyingRecordsCount ==
    [][ \A l \in {r \in HexRecords : NotQualifying(r)} :
          ( /\ hexFile.exists /\ hexFile.readable
            /\ \E p \in 0..Len(FileLines(hexFile.data)) :
                 hexFile' = TextFile(HexText(
                                InsertLine(FileLines(hexFile.data), p, l))) )
          => parse_hex_file_size(hexFile') = parse_hex_file_size(hexFile)
      ]_vars

\* a file with a record at 0x2700 after one that ends at word 4096 is
\* sized 4096 words
C6_Witness ==
    /\ Validated
    /\ hexFile.exists /\ hexFile.readable
    /\ FileLines(hexFile.data) = << <<":","1","0","1","F","F","0","0","0">>, <<":","1","0","2","7","0","0","0","0">> >>
    /\ result.value.message.args = << <<"4","0","9","6">>, <<"4","0","9","6">> >>
(***************************************************************************)
(* The ROM-size lookup: properties (SpecRom).                              *)
(***************************************************************************)

\* the last step was a call of get_chip_rom_size
RomSized == result.op = "get_chip_rom_size"

\* a stored value neither rule reads: not all digits and no decimal number
Unparsable(rom_size_str) ==
    ~IsDigit(rom_size_str) /\ PyInt(rom_size_str, 10).tag # "int"

\* the places in RomFields of the keys of chip_info whose value was read:
\* the key is there and every key before it is missing or unparsable
FieldsRead(chip_info) ==
    {k \in DOMAIN RomFields :
        /\ RomFields[k] \in DOMAIN chip_info
        /\ \A j \in 1..(k - 1) :
              \/ RomFields[j] \notin DOMAIN chip_info
              \/ Unparsable(chip_info[RomFields[j]])}

\* C7: a stored ROM-size value of digits only is returned by
\* get_chip_rom_size read as hexadecimal ("001000" is 4096, not 1000); any
\* other stored value is read as a decimal integer.
C7_DigitsReadAsHex ==
    (RomSized /\ get_chip_info(chips, result.chip_name) # 0) =>
        LET chip_info == chips[get_chip_info(chips, result.chip_name)]
        IN  \A k \in FieldsRead(chip_info) :
              LET rom_size_str == chip_info[RomFields[k]]
              IN  /\ IsDigit(rom_size_str) =>
                      result.value =
                          IntResult(DigitsValue(rom_size_str, 16, 0))
                  /\ (~IsDigit(rom_size_str)
                        /\ PyInt(rom_size_str, 10).tag = "int") =>
                      result.value = IntResult(PyInt(rom_size_str, 10).val)

\* the record says ROMSIZE=001000 and the call returned 4096
C7_Witness ==
    /\ RomSized
    /\ get_chip_info(chips, result.chip_name) # 0
    /\ DictGet(chips[get_chip_info(chips, result.chip_name)],
               K_ROMSIZE, <<>>) = <<"0","0","1","0","0","0">>
    /\ result.value = IntResult(4096)

\* what the fallback table gives for a name
FromTable(chip_name) ==
    IF Upper(chip_name) \in DOMAIN rom_sizes
    THEN IntResult(rom_sizes[Upper(chip_name)])
    ELSE NoneResult

\* least element of a non-empty set of numbers
Least(S) == CHOOSE k \in S : \A j \in S : k <= j

\* C8 as stated: the first of the keys ROMSIZE, ROMsize, romsize that is in
\* the chip's record decides; when none is there or its value does not
\* parse the fallback table decides, by the upper-cased name, and a name
\* that is not in the table gives None.
C8_FirstPresentKeyDecides ==
    RomSized =>
        LET i       == get_chip_info(chips, result.chip_name)
            present == IF i = 0 THEN {}
                       ELSE {k \in DOMAIN RomFields :
                               RomFields[k] \in DOMAIN chips[i]}
        IN  IF present # {}
               /\ RomField(chips[i][RomFields[Least(present)]]).tag = "int"
            THEN result.value = RomField(chips[i][RomFields[Least(present)]])
            ELSE result.value = FromTable(result.chip_name)

\* C8, amended: the first of the keys ROMSIZE, ROMsize, romsize that is in
\* the chip's record with a value that parses decides, a key whose value
\* does not parse being passed over; when there is none the fallback table
\* decides, by the upper-cased name, and a name that is not in the table
\* gives None; no exception is raised.
C8_FirstParsingKeyDecides ==
    RomSized =>
        LET i       == get_chip_info(chips, result.chip_name)
            parsing == IF i = 0 THEN {}
                       ELSE {k \in DOMAIN RomFields :
                               /\ RomFields[k] \in DOMAIN chips[i]
                               /\ RomField(chips[i][RomFields[k]]).tag = "int"}
        IN  /\ result.value.tag # "raise"
            /\ IF parsing # {}
               THEN result.value = RomField(chips[i][RomFields[Least(parsing)]])
               ELSE result.value = FromTable(result.chip_name)

\* ROMSIZE=n/a does not parse and ROMsize=000800 decides: 2048
C8_Witness ==
    /\ RomSized
    /\ get_chip_info(chips, result.chip_name) # 0
    /\ DictGet(chips[get_chip_info(chips, result.chip_name)],
               K_ROMSIZE, <<>>) = <<"n","/","a">>
    /\ DictGet(chips[get_chip_info(chips, result.chip_name)],
               K_ROMsize, <<>>) = <<"0","0","0","8","0","0">>
    /\ result.value = IntResult(2048)

(***************************************************************************)
(* The parser: properties (SpecParse).                                     *)
(***************************************************************************)

\* the records of a catalog text: for every block that has a chip name,
\* the name of its first line and whether its INCLUDE field is Y
TextRecords(data) ==
    LET chip_blocks == Split(data, S_BlockSep)
    IN  {[i |-> i,
          chip_name |-> BlockChipName(BlockLines(i - 1, chip_blocks[i])),
          included |-> Included(BlockChipInfo(
                                    BlockLines(i - 1, chip_blocks[i])))] :
            i \in {j \in DOMAIN chip_blocks :
                     /\ ~SkipsBlock(j - 1, chip_blocks[j])
                     /\ BlockChipName(BlockLines(j - 1, chip_blocks[j]))
                            # <<>>}}

\* C9: after parse_chipdata on a non-empty text the catalog has exactly
\* one chip with the name of every record whose INCLUDE field is Y, and,
\* the record of the 16F887 patch aside, no chip with the name of a record
\* whose INCLUDE field is missing or is something else.
C9_IncludedRecordsExactlyOnce ==
    parsed # <<>> =>
        \A r \in TextRecords(parsed) :
            LET named == {i \in DOMAIN chips : chips[i][K_name] = r.chip_name}
            IN  IF r.included
                THEN Cardinality(named) = 1
                ELSE \A i \in named : chips[i] = pic16f887_info

\* C10: after parsing a text that has an included chip named 16F887
\* (upper-cased) the catalog and the PIC16F bucket hold no 16F887 entry
\* beyond those of the text; after parsing a text that has none the
\* catalog holds exactly one 16F887 chip and the PIC16F bucket lists it;
\* parsing the text again gives the same catalog.
C10_PatchIdempotent ==
    parsed # <<>> =>
        LET inText  == {r \in TextRecords(parsed) :
                          r.included /\ Upper(r.chip_name) = S_16F887}
            inChips == {i \in DOMAIN chips : Upper(chips[i][K_name]) = S_16F887}
            bucket  == DictGet(chip_families, "PIC16F", <<>>)
            listed  == {j \in DOMAIN bucket : Upper(bucket[j]) = S_16F887}
            again   == ParsedCatalog(parsed)
        IN  /\ inText # {} =>
                /\ Cardinality(inChips) = Cardinality(inText)
                /\ Cardinality(listed) = Cardinality(inText)
            /\ inText = {} =>
                /\ Cardinality(inChips) = 1
                /\ Cardinality(listed) = 1
            /\ again.chips = chips
            /\ again.chip_families = chip_families
(***************************************************************************)
(* The loader: the cache file and the fetch of the catalog text.           *)
(***************************************************************************)

\* str.join: the parts with sep between them
Join(parts, sep) ==
    Flatten([i \in DOMAIN parts |->
                IF i < Len(parts) THEN parts[i] \o sep ELSE parts[i]])

\* the text open(file, 'r') reads from the characters s of a file: the line
\* ends \r\n and \r are given as \n
UniversalNewlines(s) ==
    CHOOSE t \in {Join(Split(u, <<"\r">>), <<"\n">>) :
                    u \in {Join(Split(s, <<"\r", "\n">>), <<"\n">>)}} : TRUE

StrData(text) == [tag |-> "str", text |-> text]

NoneData == [tag |-> "None", text |-> <<>>]

\* what becomes of the write of the cache file: mkdir, open and write do
\* not raise; mkdir or open raises and the file stays as it was; write
\* raises after open(cache_file, 'w') has emptied the file
WriteOutcomes == {"all", "none", "cut"}

\* download_chipdata() with the cache file `file` and the text at
\* chipdata_url: the data returned, the cache file after, and whether the
\* cache was written; fetch_ok is requests.get and raise_for_status not
\* raising, written is the outcome of the write of the cache file
download_chipdata(file, text, fetch_ok, written) ==
    IF ~fetch_ok
    THEN [data |-> NoneData, cache |-> file,
          fetched |-> TRUE, wrote |-> FALSE]
    ELSE IF written = "all"
    THEN [data |-> StrData(text), cache |-> TextFile(text),
          fetched |-> TRUE, wrote |-> TRUE]
    ELSE IF written = "cut"
    THEN [data |-> NoneData, cache |-> TextFile(<<>>),
          fetched |-> TRUE, wrote |-> FALSE]
    ELSE [data |-> NoneData, cache |-> file,
          fetched |-> TRUE, wrote |-> FALSE]

\* load_chipdata() that takes an unreadable cache file for a failure and
\* does not go on to download_chipdata()
LoadWithoutFallThrough(file, text, fetch_ok, written) ==
    IF file.exists
    THEN IF file.readable
         THEN [data |-> StrData(UniversalNewlines(file.data)), cache |-> file,
               fetched |-> FALSE, wrote |-> FALSE]
         ELSE [data |-> NoneData, cache |-> file,
               fetched |-> FALSE, wrote |-> FALSE]
    ELSE download_chipdata(file, text, fetch_ok, written)

\* load_chipdata(): the cache file when it exists and can be read, else
\* download_chipdata()
load_chipdata(file, text, fetch_ok, written) ==
    IF file.exists /\ file.readable
    THEN [data |-> StrData(UniversalNewlines(file.data)), cache |-> file,
          fetched |-> FALSE, wrote |-> FALSE]
    ELSE download_chipdata(file, text, fetch_ok, written)

\* `if data:` on what load_chipdata returned
Truthy(data) == data.tag = "str" /\ data.text # <<>>

\* a call of load_chipdata(); the text at chipdata_url is chipdata
CallLoad(fetch_ok, written) ==
    /\ \E load \in {load_chipdata(cache, Flatten(chipdata), fetch_ok,
                                  written)} :
        /\ cache' = load.cache
        /\ result' = [op |-> "load_chipdata", fetch_ok |-> fetch_ok,
                      written |-> written,
                      value |-> [data |-> load.data, fetched |-> load.fetched,
                                 wrote |-> load.wrote]]
    /\ UNCHANGED <<auxVars, catalogVars, chipdata, hexFile, guiVars>>

\* initialize(): load_chipdata(), parse_chipdata(data) when there is data
initialize(fetch_ok, written) ==
    /\ \E load \in {load_chipdata(cache, Flatten(chipdata), fetch_ok,
                                  written)} :
        /\ cache' = load.cache
        /\ IF Truthy(load.data)
           THEN ParseInto(load.data.text)
           ELSE UNCHANGED catalogVars
        /\ result' = [op |-> "initialize", fetch_ok |-> fetch_ok,
                      written |-> written,
                      value |-> [ok |-> Truthy(load.data),
                                 fetched |-> load.fetched,
                                 wrote |-> load.wrote]]
    /\ UNCHANGED <<auxVars, chipdata, hexFile, guiVars>>

\* parse_chipdata(data) with a data that is '' or None
parse_no_data ==
    /\ ParseInto(<<>>)
    /\ result' = [op |-> "parse_chipdata", chip_name |-> <<>>,
                  value |-> NoneResult]
    /\ UNCHANGED <<auxVars, chipdata, hexFile, cache, guiVars>>

\* the cache file is removed
RemoveCache ==
    /\ cache.exists
    /\ cache' = MissingFile
    /\ result' = NoCall
    /\ UNCHANGED <<auxVars, catalogVars, chipdata, hexFile, guiVars>>

\* the cache file becomes unreadable: no permission, or bytes that are not
\* UTF-8
DamageCache ==
    /\ cache.exists /\ cache.readable
    /\ cache' = UnreadableFile
    /\ result' = NoCall
    /\ UNCHANGED <<auxVars, catalogVars, chipdata, hexFile, guiVars>>

\* pieces of the text at chipdata_url: a record with \r\n line ends, a
\* record after a blank line
LoadChunks ==
    { <<"C","H","I","P","n","a","m","e","=","1","6","f","8","8","7","\r","\n","I","N","C","L","U","D","E","=","Y","\r","\n">>,
      <<"\n","C","H","I","P","n","a","m","e","=","1","2","F","6","7","5","\n","I","N","C","L","U","D","E","=","Y","\n">> }

\* a new ChipDatabase; the cache file is missing, unreadable or empty
InitLoad ==
    /\ chips = <<>>
    /\ chip_families = EmptyFamilies
    /\ chipdata = <<>>
    /\ parsed = <<>>
    /\ hexFile = MissingFile
    /\ cache \in {MissingFile, UnreadableFile, TextFile(<<>>)}
    /\ AuxInit
    /\ result = NoCall
    /\ log_tail = NoLog
    /\ threads = 0

NextLoad ==
    \/ \E c \in LoadChunks : WriteChunk(c)
    \/ RemoveCache
    \/ DamageCache
    \/ \E fetch_ok \in BOOLEAN, written \in WriteOutcomes :
        CallLoad(fetch_ok, written)
    \/ \E fetch_ok \in BOOLEAN, written \in WriteOutcomes :
        initialize(fetch_ok, written)
    \/ parse_no_data

SpecLoad == InitLoad /\ [][NextLoad]_vars

\* the catalog has a record named 16F887, listed in the PIC16F family
Has16F887 ==
    /\ \E i \in DOMAIN chips : Upper(chips[i][K_name]) = S_16F887
    /\ "PIC16F" \in DOMAIN chip_families
    /\ \E j \in DOMAIN chip_families["PIC16F"] :
        chip_families["PIC16F"][j] = S_16F887

\* C11: the 16F887 patch runs on every load, whether or not a catalog text
\* was obtained: after initialize() returns, with success or with failure,
\* the catalog has a 16F887 record, listed in the PIC16F family
C11_PatchOnEveryLoad ==
    result.op = "initialize" => Has16F887

\* C16 (as stated): given an empty or no input, parse_chipdata raises no
\* exception and leaves the catalog empty, no chips and no family buckets,
\* in every state it is called in, also after an earlier successful load
C16_EmptyInputLeavesEmpty ==
    result.op = "parse_chipdata" =>
        /\ result.value = NoneResult
        /\ chips = <<>>
        /\ chip_families = EmptyFamilies

\* C16 (amended): given an empty or no input, parse_chipdata raises no
\* exception and leaves the catalog as it was: empty on a new ChipDatabase,
\* the catalog of the earlier load after a successful load
C16_EmptyInputLeavesCatalog ==
    [][result'.op = "parse_chipdata" =>
          /\ result'.value = NoneResult
          /\ chips' = chips
          /\ chip_families' = chip_families]_vars

\* parse_chipdata was given no data after a successful load
C16_Witness ==
    /\ result.op = "parse_chipdata"
    /\ chips # <<>>
    /\ parsed # <<>>

\* C20: load_chipdata prefers the cache: when the cache file exists and can
\* be read it returns the cache content verbatim, with no fetch and no cache
\* write; a fetch is attempted only when the cache is absent or reading it
\* fails
C20_CachePreferred ==
    [][result'.op = "load_chipdata" =>
          IF cache.exists /\ cache.readable
          THEN /\ result'.value.data = StrData(cache.data)
               /\ ~result'.value.fetched
               /\ ~result'.value.wrote
               /\ cache' = cache
          ELSE result'.value.fetched]_vars

(***************************************************************************)
(* The query interface of the catalog.                                     *)
(***************************************************************************)

\* get_all_chips(): the names of chips, in the order of chips
get_all_chips(chip_list) ==
    [i \in DOMAIN chip_list |-> chip_list[i][K_name]]

\* get_chip_count_by_family(): family -> len(chips)
get_chip_count_by_family(families) ==
    [f \in DOMAIN families |-> Len(families[f])]

\* sum(stats.values())
RECURSIVE SumOver(_, _)
SumOver(stats, keys) ==
    IF keys = {} THEN 0
    ELSE LET k == CHOOSE x \in keys : TRUE
         IN  stats[k] + SumOver(stats, keys \ {k})

\* the families whose bucket lists name
BucketsOf(name) ==
    {f \in DOMAIN chip_families :
        \E j \in DOMAIN chip_families[f] : chip_families[f][j] = name}

\* C12: after every load the family buckets partition the catalog: the name
\* of every chip is listed in exactly one bucket, every name listed in a
\* bucket is the name of a chip, the bucket is the one get_chip_family gives
\* for the name, and the counts of get_chip_count_by_family sum to the
\* number of chips
C12_BucketsPartitionCatalog ==
    parsed # <<>> =>
        /\ \A i \in DOMAIN chips :
            BucketsOf(chips[i][K_name]) = {get_chip_family(chips[i][K_name])}
        /\ \A f \in DOMAIN chip_families :
            \A j \in DOMAIN chip_families[f] :
                \E i \in DOMAIN chips : chips[i][K_name] = chip_families[f][j]
        /\ SumOver(get_chip_count_by_family(chip_families),
                   DOMAIN chip_families) = Len(chips)

\* the chip_name arguments of get_chip_family: a start and a rest
FamilyHeads ==
    { <<>>, <<"1">>, <<"1","0">>, <<"1","0","F">>, <<"1","2">>, <<"1","6">>, <<"1","8">>, <<"2","4">>, <<"3","0">>,
      <<"3","0","F">>, <<"3","3","F">>, <<"3">>, <<"u","n","k","n","o","w","n">>, <<"P","I","C","1","6">> }

FamilyRests ==
    { <<>>, <<"9","9">>, <<"C","5","4">>, <<"F","8","8","7">>, <<"f","6","7","5">>, <<"C","F","9","9">>, <<"F","C","4">>,
      <<"c","r">>, <<"L","F","2","0","1","0">> }

FamilyNames == {head \o rest : head \in FamilyHeads, rest \in FamilyRests}

\* a call of get_chip_family(chip_name)
CallFamily(chip_name) ==
    /\ result' = [op |-> "get_chip_family", chip_name |-> chip_name,
                  value |-> get_chip_family(chip_name)]
    /\ UNCHANGED <<auxVars, catalogVars, chipdata, hexFile, cache, guiVars>>

NextFamily == \E chip_name \in FamilyNames : CallFamily(chip_name)

SpecFamily == InitParse /\ [][NextFamily]_vars

\* the eleven family tags
FamilyTags ==
    {"PIC10F", "PIC12C", "PIC12F", "PIC12", "PIC16C", "PIC16F", "PIC16",
     "PIC18F", "dsPIC", "PIC24", "Other"}

\* the upper-cased name starts with the digits p / holds the letter c
Starts(u, p) == Len(u) >= Len(p) /\ \A i \in 1..Len(p) : u[i] = p[i]

Holds(u, c) == c \in {u[i] : i \in DOMAIN u}

\* the tag of the upper-cased name u, rule by rule
TagOf(u) ==
    CASE Starts(u, <<"1","0","F">>) -> "PIC10F"
      [] Starts(u, <<"1","2">>) /\ Holds(u, "C") -> "PIC12C"
      [] Starts(u, <<"1","2">>) /\ ~Holds(u, "C") /\ Holds(u, "F") -> "PIC12F"
      [] Starts(u, <<"1","2">>) /\ ~Holds(u, "C") /\ ~Holds(u, "F") -> "PIC12"
      [] Starts(u, <<"1","6">>) /\ Holds(u, "C") -> "PIC16C"
      [] Starts(u, <<"1","6">>) /\ ~Holds(u, "C") /\ Holds(u, "F") -> "PIC16F"
      [] Starts(u, <<"1","6">>) /\ ~Holds(u, "C") /\ ~Holds(u, "F") -> "PIC16"
      [] Starts(u, <<"1","8">>) -> "PIC18F"
      [] Starts(u, <<"3","0","F">>) \/ Starts(u, <<"3","3","F">>) -> "dsPIC"
      [] Starts(u, <<"2","4">>) -> "PIC24"
      [] OTHER -> "Other"

\* the examples: 16F887, 12F675, 18F4550, 30F2010, unknown99, 12CF99
FamilyExamples ==
    /\ get_chip_family(<<"1","6","F","8","8","7">>) = "PIC16F"
    /\ get_chip_family(<<"1","2","F","6","7","5">>) = "PIC12F"
    /\ get_chip_family(<<"1","8","F","4","5","5","0">>) = "PIC18F"
    /\ get_chip_family(<<"3","0","F","2","0","1","0">>) = "dsPIC"
    /\ get_chip_family(<<"u","n","k","n","o","w","n","9","9">>) = "Other"
    /\ get_chip_family(<<"1","2","C","F","9","9">>) = "PIC12C"

\* C13: get_chip_family is a total function of the upper-cased chip name:
\* it returns one of the eleven tags, the one of the first rule that
\* matches (10F; 12 with C, with F, plain; 16 with C, with F, plain; 18;
\* 30F or 33F; 24; else Other), the same for a name and its upper-casing,
\* and the examples get PIC16F, PIC12F, PIC18F, dsPIC, Other and PIC12C
C13_FamilyByFirstMatch ==
    result.op = "get_chip_family" =>
        /\ result.value \in FamilyTags
        /\ result.value = TagOf(Upper(result.chip_name))
        /\ result.value = get_chip_family(Upper(result.chip_name))
        /\ FamilyExamples

\* a name with both letters, C deciding
C13_Witness ==
    /\ result.op = "get_chip_family"
    /\ result.chip_name = <<"1","2","C","F","9","9">>
    /\ result.value = "PIC12C"

\* a is b or comes before b in the lexicographic order of the code points
LexLeq(a, b) ==
    \/ Len(a) <= Len(b) /\ \A i \in 1..Len(a) : a[i] = b[i]
    \/ \E k \in 1..Min(Len(a), Len(b)) :
        /\ \A i \in 1..(k - 1) : a[i] = b[i]
        /\ Ord(a[k]) < Ord(b[k])

NonDecreasing(names) ==
    \A i \in DOMAIN names : \A j \in DOMAIN names :
        i < j => LexLeq(names[i], names[j])

\* C14: after every load the chips are in non-decreasing lexicographic order
\* of their names, every family bucket is in that order too, also when the
\* 16F887 record was appended after the parsed ones, and get_all_chips
\* returns the names in the order of the chips
C14_SortedByName ==
    parsed # <<>> =>
        /\ NonDecreasing([i \in DOMAIN chips |-> chips[i][K_name]])
        /\ \A f \in DOMAIN chip_families : NonDecreasing(chip_families[f])
        /\ NonDecreasing(get_all_chips(chips))
        /\ Len(get_all_chips(chips)) = Len(chips)

\* the 16F887 record, appended after two parsed records, stands before them
C14_Witness ==
    /\ parsed # <<>>
    /\ Len(chips) = 3
    /\ chips[1] = pic16f887_info
    /\ chips[2][K_name] = <<"1","8","F","2","5","5","0">>

\* C15: for a non-empty text the catalog after parse_chipdata(text)
\* depends on the text only: whatever was parsed before, the same text or
\* another, chips and chip_families are those a new ChipDatabase builds
\* from the text of the last parse
C15_CatalogDependsOnTextOnly ==
    parsed # <<>> =>
        /\ chips = ParsedCatalog(parsed).chips
        /\ chip_families = ParsedCatalog(parsed).chip_families

\* the catalog of one text is in place and another text, with another
\* catalog, is the one to parse next
C15_Witness ==
    /\ parsed # <<>>
    /\ Flatten(chipdata) # parsed
    /\ ParsedCatalog(Flatten(chipdata)).chips # chips

(***************************************************************************)
(* The queries and what their callers hold.                                *)
(***************************************************************************)

\* the most names a caller appends to one list
MaxAppends == 1

\* `query in name` on str
StrIn(query, name) ==
    \E i \in 0..(Len(name) - Len(query)) :
        SubSeq(name, i + 1, i + Len(query)) = query

\* the values the queries return: a new list, the list object of a family
\* bucket, a new dict whose values are the list objects of the buckets, the
\* dict object of chips[index], None
NewList(l) ==
    [tag |-> "list", own |-> TRUE, list |-> l, family |-> "", keys |-> {},
     index |-> 0]

BucketList(family) ==
    [tag |-> "list", own |-> FALSE, list |-> <<>>, family |-> family,
     keys |-> {}, index |-> 0]

NewDict(keys) ==
    [tag |-> "dict", own |-> TRUE, list |-> <<>>, family |-> "",
     keys |-> keys, index |-> 0]

ChipDict(index) ==
    [tag |-> "chip", own |-> FALSE, list |-> <<>>, family |-> "",
     keys |-> {}, index |-> index]

NoValue ==
    [tag |-> "None", own |-> TRUE, list |-> <<>>, family |-> "",
     keys |-> {}, index |-> 0]

\* the family argument of get_chips_by_family: a str, or None when left out
FamilyTag(text) == [tag |-> "str", text |-> text]

NoFamily == [tag |-> "None", text |-> ""]

\* search_chips(query) without query = query.upper()
SearchWithoutUpper(chip_list, query) ==
    LET Hit(name) == StrIn(query, Upper(name))
    IN  NewList(SortNames(SelectSeq(get_all_chips(chip_list), Hit)))

\* search_chips(query)
search_chips(chip_list, query) ==
    LET Hit(name) == StrIn(Upper(query), Upper(name))
    IN  NewList(SortNames(SelectSeq(get_all_chips(chip_list), Hit)))

\* get_chips_by_family(family): `if family` holds for a str that is not ''
get_chips_by_family(families, family) ==
    IF family.tag = "str" /\ family.text # ""
    THEN IF family.text \in DOMAIN families
         THEN BucketList(family.text)
         ELSE NewList(<<>>)
    ELSE NewDict(DOMAIN families)

\* a call of search_chips(query)
CallSearch(query) ==
    /\ result' = [op |-> "search_chips", query |-> query,
                  value |-> search_chips(chips, query)]
    /\ UNCHANGED <<auxVars, catalogVars, chipdata, hexFile, cache, guiVars>>

\* a call of get_chips_by_family(family)
CallByFamily(family) ==
    /\ result' = [op |-> "get_chips_by_family", family |-> family,
                  value |-> get_chips_by_family(chip_families, family)]
    /\ UNCHANGED <<auxVars, catalogVars, chipdata, hexFile, cache, guiVars>>

\* a call of get_all_chips()
CallAllChips ==
    /\ result' = [op |-> "get_all_chips",
                  value |-> NewList(get_all_chips(chips))]
    /\ UNCHANGED <<auxVars, catalogVars, chipdata, hexFile, cache, guiVars>>

\* a call of get_chip_info(chip_name)
CallChipInfo(chip_name) ==
    /\ \E i \in {get_chip_info(chips, chip_name)} :
        result' = [op |-> "get_chip_info", chip_name |-> chip_name,
                   value |-> IF i = 0 THEN NoValue ELSE ChipDict(i)]
    /\ UNCHANGED <<auxVars, catalogVars, chipdata, hexFile, cache, guiVars>>

\* the name a caller writes into what it holds
S_X == <<"X">>

Holding == result.op \in {"search_chips", "get_chips_by_family",
                          "get_all_chips", "get_chip_info", "caller"}

Times(name, l) == Cardinality({j \in DOMAIN l : l[j] = name})

\* the caller appends to the new list it was given
CallerAppendsOwn ==
    /\ Holding
    /\ result.value.tag = "list" /\ result.value.own
    /\ Times(S_X, result.value.list) < MaxAppends
    /\ result' = [op |-> "caller",
                  value |-> [result.value EXCEPT !.list = Append(@, S_X)]]
    /\ UNCHANGED <<auxVars, catalogVars, chipdata, hexFile, cache, guiVars>>

\* the caller appends to the bucket list it was given, or to a list of the
\* mapping it was given: the list object is the one of chip_families
CallerAppendsShared(family) ==
    /\ Holding
    /\ \/ result.value.tag = "list" /\ ~result.value.own
          /\ result.value.family = family
       \/ result.value.tag = "dict" /\ family \in result.value.keys
    /\ family \in DOMAIN chip_families
    /\ Times(S_X, chip_families[family]) < MaxAppends
    /\ chip_families' = [chip_families EXCEPT ![family] = Append(@, S_X)]
    /\ result' = [op |-> "caller", value |-> result.value]
    /\ UNCHANGED <<auxVars, chips, parsed, chipdata, hexFile, cache, guiVars>>

\* the caller deletes a key of the mapping it was given
CallerDropsKey(family) ==
    /\ Holding
    /\ result.value.tag = "dict" /\ family \in result.value.keys
    /\ result' = [op |-> "caller",
                  value |-> [result.value EXCEPT !.keys = @ \ {family}]]
    /\ UNCHANGED <<auxVars, catalogVars, chipdata, hexFile, cache, guiVars>>

\* the caller sets the name of the chip dict it was given: the dict object
\* is the one in chips
CallerSetsName ==
    /\ Holding
    /\ result.value.tag = "chip"
    /\ chips[result.value.index][K_name] # S_X
    /\ chips' = [chips EXCEPT ![result.value.index] = DictSet(@, K_name, S_X)]
    /\ result' = [op |-> "caller", value |-> result.value]
    /\ UNCHANGED <<auxVars, chip_families, parsed, chipdata, hexFile, cache, guiVars>>

\* the catalog text of the queries' runs
QueryText ==
    << <<"C","H","I","P","n","a","m","e","=","1","6","F","8","4","A","\n","I","N","C","L","U","D","E","=","Y","\n">>,
       <<"\n","C","H","I","P","n","a","m","e","=","1","6","f","6","2","8","\n","I","N","C","L","U","D","E","=","Y","\n">>,
       <<"\n","C","H","I","P","n","a","m","e","=","1","2","F","6","7","5","\n","I","N","C","L","U","D","E","=","Y","\n">> >>

Queries == { <<>>, <<"1","6","f">>, <<"1","6","F">>, <<"F","6">>, <<"8","8","7">>, <<"x">> }

Families ==
    { FamilyTag("PIC16F"), FamilyTag("PIC12F"), FamilyTag("PIC18F"),
      FamilyTag("pic16f"), FamilyTag(""), NoFamily }

InfoNames == { <<"1","6","f","8","8","7">>, <<"1","2","F","6","7","5">>, <<"1","8","F","2","5","5","0">> }

InitQuery ==
    /\ chips = <<>>
    /\ chip_families = EmptyFamilies
    /\ chipdata = QueryText
    /\ parsed = <<>>
    /\ hexFile = MissingFile
    /\ cache = MissingFile
    /\ AuxInit
    /\ result = NoCall
    /\ log_tail = NoLog
    /\ threads = 0

NextQuery ==
    \/ parse_chipdata
    \/ \E query \in Queries : CallSearch(query)
    \/ \E family \in Families : CallByFamily(family)
    \/ CallAllChips
    \/ \E chip_name \in InfoNames : CallChipInfo(chip_name)
    \/ CallerAppendsOwn
    \/ \E family \in {"PIC16F", "PIC12F"} : CallerAppendsShared(family)
    \/ \E family \in {"PIC16F", "PIC12F"} : CallerDropsKey(family)
    \/ CallerSetsName

SpecQuery == InitQuery /\ [][NextQuery]_vars

\* the query q occurs in the name n, character by character
Occurs(q, n) ==
    \E i \in 1..(Len(n) + 1) :
        \A k \in 1..Len(q) : i + k - 1 <= Len(n) /\ n[i + k - 1] = q[k]

\* C17: search_chips(query) returns exactly the catalog names that contain
\* the query as a substring when both are upper-cased, each as often as the
\* catalog has it, in lexicographic order; search_chips("") returns every
\* catalog name; search_chips("16f") returns what search_chips("16F") does
C17_SearchBySubstring ==
    result.op = "search_chips" =>
        LET found == result.value.list
            names == get_all_chips(chips)
            q     == Upper(result.query)
        IN  /\ result.value.tag = "list"
            /\ NonDecreasing(found)
            /\ \A j \in DOMAIN found : Occurs(q, Upper(found[j]))
            /\ \A i \in DOMAIN names :
                Times(names[i], found) =
                    IF Occurs(q, Upper(names[i]))
                    THEN Times(names[i], names) ELSE 0
            /\ result.query = <<>> => Len(found) = Len(chips)
            /\ search_chips(chips, <<"1","6","f">>) = search_chips(chips, <<"1","6","F">>)

\* a lower-case query finds the names of both cases, and not every name
C17_Witness ==
    /\ result.op = "search_chips"
    /\ result.query = <<"1","6","f">>
    /\ \E j \in DOMAIN result.value.list : result.value.list[j] = <<"1","6","F","8","4","A">>
    /\ \E j \in DOMAIN result.value.list : result.value.list[j] = <<"1","6","f","6","2","8">>
    /\ Len(result.value.list) < Len(chips)

\* the list a returned value stands for
ListOf(v) == IF v.own THEN v.list ELSE chip_families[v.family]

\* C18: get_chips_by_family with a family tag returns the list of that
\* family, an empty sequence for every tag that is not a bucket, the
\* empty-string tag too; only a call without a tag returns the full
\* family-to-chips mapping
C18_FamilyListOrMapping ==
    result.op = "get_chips_by_family" =>
        IF result.family.tag = "str"
        THEN /\ result.value.tag = "list"
             /\ ListOf(result.value) =
                    DictGet(chip_families, result.family.text, <<>>)
        ELSE /\ result.value.tag = "dict"
             /\ result.value.keys = DOMAIN chip_families

\* C19: consumers never get write access to the catalog: whatever a caller
\* does to a value returned by get_all_chips, get_chips_by_family,
\* search_chips or get_chip_info, chips and chip_families stay as they were
C19_NoWriteAccess ==
    [][result'.op = "caller" =>
          /\ chips' = chips
          /\ chip_families' = chip_families]_vars

(***************************************************************************)
(* The loader's failures.                                                  *)
(***************************************************************************)

\* C21: load_chipdata fails soft: an error while reading an existing cache
\* file is a cache miss that goes on to the fetch, and a failed fetch gives
\* None, not an exception; initialize then returns False and leaves the
\* catalog as it was
C21_LoadFailsSoft ==
    [][result'.op \in {"load_chipdata", "initialize"} =>
          /\ cache.exists /\ ~cache.readable => result'.value.fetched
          /\ result'.op = "load_chipdata" /\ result'.value.fetched
                /\ ~result'.fetch_ok =>
                    result'.value.data = NoneData
          /\ result'.op = "initialize" /\ result'.value.fetched
                /\ ~result'.fetch_ok =>
                    /\ ~result'.value.ok
                    /\ chips' = chips
                    /\ chip_families' = chip_families]_vars

\* initialize() found the cache unreadable, the fetch failed, and the
\* catalog of an earlier load is still there
C21_Witness ==
    /\ result.op = "initialize"
    /\ cache.exists /\ ~cache.readable
    /\ result.value.fetched /\ ~result.fetch_ok
    /\ ~result.value.ok
    /\ chips # <<>>

\* C28: a successful fetch is returned also when the cache cannot be
\* written: load_chipdata returns the fetched text whenever the fetch
\* succeeded, and None only when the fetch itself failed
C28_FetchedTextReturned ==
    result.op = "load_chipdata" /\ result.value.fetched =>
        IF result.fetch_ok
        THEN result.value.data = StrData(Flatten(chipdata))
        ELSE result.value.data = NoneData

(***************************************************************************)
(* The HEX size estimate on files of every kind of line.                   *)
(***************************************************************************)

\* lines of a HEX file: data records of 8, 16 and 5 words, the highest
\* record below 0x2000 with the most bytes, a data record at 0x2700, a
\* record whose address is not hexadecimal, a line that is no record, a
\* record that ends after its byte count
HexFileLines ==
    { <<":","1","0","0","0","0","0","0","0","F","F">>,
      <<":","1","0","0","0","1","0","0","0">>,
      <<":","0","2","0","0","0","8","0","0">>,
      <<":","F","F","1","F","F","E","0","0">>,
      <<":","1","0","2","7","0","0","0","0">>,
      <<":","1","0","Z","Z","0","0","0","0">>,
      <<"j","u","n","k">>,
      <<":","1","0">> }

\* a call of _parse_hex_file_size(hex_file_path)
CallHexSize ==
    /\ result' = [op |-> "_parse_hex_file_size", chip_name |-> <<>>,
                  value |-> parse_hex_file_size(hexFile)]
    /\ UNCHANGED <<auxVars, catalogVars, chipdata, hexFile, cache, guiVars>>

NextHex ==
    \/ \E l \in HexFileLines, p \in 0..MaxHexLines : WriteHexLine(l, p)
    \/ CallHexSize

SpecHex == Init /\ [][NextHex]_vars

\* the last step was a call of _parse_hex_file_size on a file it could open
HexSized ==
    /\ result.op = "_parse_hex_file_size"
    /\ hexFile.exists /\ hexFile.readable

\* the words a line stands for: (address div 2) + (byte_count div 2) for a
\* data record with bytes below 0x2000, 0 for every other line
QualifyingWords(line0) ==
    LET line        == Strip(line0)
        byte_count  == PyInt(Slice(line, 1, 3), 16)
        address     == PyInt(Slice(line, 3, 7), 16)
        record_type == PyInt(Slice(line, 7, 9), 16)
    IN  IF /\ StartsWith(line, <<":">>)
           /\ byte_count.tag = "int" /\ address.tag = "int"
           /\ record_type.tag = "int"
           /\ record_type.val = 0 /\ byte_count.val > 0
           /\ address.val < 8192
        THEN (address.val \div 2) + (byte_count.val \div 2)
        ELSE 0

\* the greatest of a set of numbers and 0
Greatest(S) == CHOOSE w \in S \cup {0} : \A x \in S \cup {0} : x <= w

\* the orders of n lines
Orders(n) == {f \in [1..n -> 1..n] : \A i, j \in 1..n : f[i] = f[j] => i = j}

\* the estimate of the file of these lines
SizeOfLines(lines) == parse_hex_file_size(TextFile(HexText(lines)))

\* C22: the HEX size estimate is the maximum of (address div 2) +
\* (byte_count div 2) over the qualifying records, 0 when there is none,
\* not a sum: it is the same for every order of the file's lines, and a
\* record of the file written into it once more does not change it
C22_EstimateIsMaximum ==
    HexSized =>
        \E lines \in {FileLines(hexFile.data)} :
            /\ result.value.tag = "int" =>
                result.value.val =
                    Greatest({QualifyingWords(lines[i]) : i \in DOMAIN lines})
            /\ \A f \in Orders(Len(lines)) :
                SizeOfLines([i \in 1..Len(lines) |-> lines[f[i]]])
                    = result.value
            /\ \A i \in DOMAIN lines : \A p \in 0..Len(lines) :
                SizeOfLines(SubSeq(lines, 1, p) \o <<lines[i]>>
                                \o SubSeq(lines, p + 1, Len(lines)))
                    = result.value

\* the higher record stands first, a record inside it follows, and the
\* estimate is the 16 words of the higher record
C22_Witness ==
    /\ HexSized
    /\ FileLines(hexFile.data) = << <<":","1","0","0","0","1","0","0","0">>, <<":","0","2","0","0","0","8","0","0">> >>
    /\ result.value = IntResult(16)

\* C25: the HEX size estimate is bounded for every file: only records below
\* byte address 0x2000 count and a byte count is at most 0xFF, so the
\* estimate is never above 4095 + 127 = 4222 words, and
\* validate_hex_file_size never fails for a chip whose resolved ROM
\* capacity is 4222 words or more, whatever the HEX file holds
C25_EstimateBounded ==
    Validated =>
        \E est \in {parse_hex_file_size(hexFile)} :
            /\ est.tag = "int" => est.val <= 4222
            /\ \E rom \in {get_chip_rom_size(chips, result.chip_name)} :
                (rom.tag = "int" /\ rom.val >= 4222) => result.value.ok

\* the file of the greatest estimate passes on the chip of 8192 words
C25_Witness ==
    /\ Validated
    /\ result.value.ok
    /\ result.value.message.args = << <<"4","2","2","2">>, <<"8","1","9","2">> >>

\* a line that is no record, or a record whose byte count, address or type
\* is missing or not hexadecimal
Malformed(line0) ==
    LET line == Strip(line0)
    IN  \/ ~StartsWith(line, <<":">>)
        \/ PyInt(Slice(line, 1, 3), 16).tag # "int"
        \/ PyInt(Slice(line, 3, 7), 16).tag # "int"
        \/ PyInt(Slice(line, 7, 9), 16).tag # "int"

\* the lines that are not malformed, in their order
WellFormed(lines) ==
    LET Good(line) == ~Malformed(line)
    IN  SelectSeq(lines, Good)

\* C23: malformed and unrelated lines of a HEX file are skipped and are no
\* errors: validate_hex_file_size gives the outcome that the other lines of
\* the file give, so a malformed line does not turn a size-overrun fail
\* into a pass
C23_MalformedLinesSkipped ==
    (Validated /\ hexFile.exists /\ hexFile.readable) =>
        \E lines \in {FileLines(hexFile.data)} :
            result.value =
                validate_hex_file_size(TextFile(HexText(WellFormed(lines))),
                                       chips, result.chip_name)

(***************************************************************************)
(* ROM sizes written in hexadecimal with letters; the names of the chips.  *)
(***************************************************************************)

\* a string of hexadecimal digits with a letter A-F among them
HexWithLetter(s) ==
    /\ s # <<>>
    /\ \A i \in DOMAIN s :
        s[i] \in {"0", "1", "2", "3", "4", "5", "6", "7", "8", "9",
                  "A", "B", "C", "D", "E", "F"}
    /\ \E i \in DOMAIN s : s[i] \in {"A", "B", "C", "D", "E", "F"}

\* C26: a ROM-size field whose value is a hexadecimal string with a letter
\* A-F, as the ROMSIZE 001C00 of the 16F887 patch, is resolved by
\* get_chip_rom_size from the field, as its hexadecimal value, for every
\* chip, also one that is not in the fallback table
C26_HexLettersReadAsHex ==
    (RomSized /\ get_chip_info(chips, result.chip_name) # 0) =>
        LET chip_info == chips[get_chip_info(chips, result.chip_name)]
            present   == {k \in DOMAIN RomFields :
                            RomFields[k] \in DOMAIN chip_info}
        IN  (present # {}
               /\ HexWithLetter(chip_info[RomFields[Least(present)]])) =>
                result.value =
                    IntResult(DigitsValue(chip_info[RomFields[Least(present)]],
                                          16, 0))

\* C27: the name of every chip of the catalog is the name on the first
\* line of an included record of the text (the record of the 16F887 patch
\* aside), every included record has a chip of its first-line name, and
\* every chip's name is listed in a family bucket: no KEY=VALUE line of a
\* record changes the record's name
C27_NameFromFirstLine ==
    parsed # <<>> =>
        LET included == {r \in TextRecords(parsed) : r.included}
        IN  /\ \A i \in DOMAIN chips :
                \/ chips[i] = pic16f887_info
                \/ \E r \in included : r.chip_name = chips[i][K_name]
            /\ \A r \in included :
                \E i \in DOMAIN chips : chips[i][K_name] = r.chip_name
            /\ \A i \in DOMAIN chips : BucketsOf(chips[i][K_name]) # {}

(***************************************************************************)
(* The load on the background thread and a reader on another thread        *)
(* (SpecThreads): load_chip_database starts a thread that runs             *)
(* chip_db.initialize(); program_chip and the queries read chip_db on the  *)
(* main thread with no lock. One action is one stretch of parse_chipdata   *)
(* between two places where the threads can switch.                        *)
(***************************************************************************)

\* the catalog texts load_chipdata gives the thread
ThreadTexts ==
    { <<"C","H","I","P","n","a","m","e","=","1","6","F","8","4","A","\n","I","N","C","L","U","D","E","=","Y","\n","R","O","M","S","I","Z","E","=","0","0","0","4","0","0","\n","\n","C","H","I","P","n","a","m","e","=","1","2","F","6","7","5","\n","I","N","C","L","U","D","E","=","Y","\n">>,
      <<"C","H","I","P","n","a","m","e","=","1","8","F","2","5","5","0","\n","I","N","C","L","U","D","E","=","Y","\n","\n","C","H","I","P","n","a","m","e","=","1","6","F","8","8","7","\n","I","N","C","L","U","D","E","=","Y","\n","R","O","M","S","I","Z","E","=","0","0","2","0","0","0","\n">>,
      <<"C","H","I","P","n","a","m","e","=","F","O","O","\n","I","N","C","L","U","D","E","=","Y","\n","R","O","M","S","I","Z","E","=","0","0","0","1","0","0","\n">> }

\* the loader's steps leave these alone
LoaderLeaves ==
    /\ result' = NoCall
    /\ UNCHANGED <<chipdata, hexFile, cache, guiVars, config_file, config,
                   detector>>

\* "self.chips = []; self.chip_families = {}" and the split into blocks
parse_reset(data) ==
    /\ loader.pc = "idle"
    /\ data # <<>>
    /\ chips' = <<>>
    /\ chip_families' = EmptyFamilies
    /\ loader' = [pc |-> "blocks", i |-> 0, data |-> data]
    /\ parsed' = parsed
    /\ LoaderLeaves

\* one pass of "for i, block in enumerate(chip_blocks)"
parse_block ==
    /\ loader.pc = "blocks"
    /\ \E chip_blocks \in {Split(loader.data, S_BlockSep)} :
        /\ loader.i < Len(chip_blocks)
        /\ \E cat \in {ParseBlock(loader.i, chip_blocks[loader.i + 1],
                                  [chips |-> chips,
                                   chip_families |-> chip_families])} :
            /\ chips' = cat.chips
            /\ chip_families' = cat.chip_families
        /\ loader' = [loader EXCEPT !.i = @ + 1]
    /\ parsed' = parsed
    /\ LoaderLeaves

\* the end of the loop and "Add PIC16F887 manually if not found"
parse_patch ==
    /\ loader.pc = "blocks"
    /\ loader.i >= Len(Split(loader.data, S_BlockSep))
    /\ \E cat \in {Add16F887([chips |-> chips,
                              chip_families |-> chip_families])} :
        /\ chips' = cat.chips
        /\ chip_families' = cat.chip_families
    /\ loader' = [loader EXCEPT !.pc = "sort"]
    /\ parsed' = parsed
    /\ LoaderLeaves

\* "self.chips.sort(key=...)" and the sort of every bucket; parse_chipdata
\* and initialize() return
parse_sort ==
    /\ loader.pc = "sort"
    /\ \E cat \in {SortCatalog([chips |-> chips,
                                chip_families |-> chip_families])} :
        /\ chips' = cat.chips
        /\ chip_families' = cat.chip_families
    /\ parsed' = loader.data
    /\ loader' = NoLoad
    /\ LoaderLeaves

\* a call of get_chip_count_by_family()
CallFamilyCount ==
    /\ result' = [op |-> "get_chip_count_by_family",
                  value |-> get_chip_count_by_family(chip_families)]
    /\ UNCHANGED <<auxVars, catalogVars, chipdata, hexFile, cache, guiVars>>

\* the chip_type of program_chip
ThreadChips == { <<"1","6","F","8","4","A">>, <<"1","6","F","8","8","7">>, <<"F","O","O">> }

InitThreads == InitParse

NextThreads ==
    \/ \E data \in ThreadTexts : parse_reset(data)
    \/ parse_block
    \/ parse_patch
    \/ parse_sort
    \/ CallAllChips
    \/ CallFamilyCount
    \/ \E chip_name \in ThreadChips : CallRomSize(chip_name)

SpecThreads == InitThreads /\ [][NextThreads]_vars

\* the catalog before the load that is running, and the one it builds
CatalogBefore ==
    IF parsed = <<>> THEN EmptyCatalog ELSE ParsedCatalog(parsed)

CatalogAfter ==
    IF loader.pc = "idle" THEN CatalogBefore ELSE ParsedCatalog(loader.data)

\* C24: while the background thread is inside parse_chipdata, what a
\* reader on another thread gets from get_all_chips(),
\* get_chip_count_by_family() and get_chip_rom_size() is what the catalog
\* before the load gives or what the complete, sorted catalog of the new
\* load gives, never something of a catalog in between
C24_ReadersSeeWholeCatalogs ==
        /\ result.op = "get_all_chips" =>
            result.value.list \in {get_all_chips(CatalogBefore.chips),
                                   get_all_chips(CatalogAfter.chips)}
        /\ result.op = "get_chip_count_by_family" =>
            result.value \in
                {get_chip_count_by_family(CatalogBefore.chip_families),
                 get_chip_count_by_family(CatalogAfter.chip_families)}
        /\ result.op = "get_chip_rom_size" =>
            result.value \in
                {get_chip_rom_size(CatalogBefore.chips, result.chip_name),
                 get_chip_rom_size(CatalogAfter.chips, result.chip_name)}

(***************************************************************************)
(* Config: load_config, set and save_config (SpecConfig).                  *)
(***************************************************************************)

\* an element of a JSON array: a [key, val] list of two, or a scalar
Pair(key, val) == [tag |-> "pair", key |-> key, val |-> val]

Scalar(val) == [tag |-> "scalar", key |-> "", val |-> val]

\* what a call gives: a dict, or the exception it raises
Returned(d) == [tag |-> "dict", dict |-> d, error |-> ""]

Raised(error) == [tag |-> "raise", dict |-> NoObject, error |-> error]

\* d.update(other) with a dict
UpdateDict(d, other) ==
    [k \in DOMAIN d \cup DOMAIN other |->
        IF k \in DOMAIN other THEN other[k] ELSE d[k]]

\* d.update(other) with a list: every element has to be a sequence of two
RECURSIVE UpdateList(_, _)
UpdateList(d, other) ==
    IF other = <<>> THEN Returned(d)
    ELSE IF other[1].tag = "pair"
    THEN UpdateList([k \in DOMAIN d \cup {other[1].key} |->
                        IF k = other[1].key THEN other[1].val ELSE d[k]],
                    Tail(other))
    ELSE IF other[1].val.tag = "str"
    THEN Raised("ValueError")
    ELSE Raised("TypeError")

\* d.update(other) with a str, a number, true, false or null
UpdateScalar(d, other) ==
    IF other.tag = "str"
    THEN IF other.val = "" THEN Returned(d) ELSE Raised("ValueError")
    ELSE Raised("TypeError")

\* Config.load_config
load_config(file) ==
    IF ~file.exists THEN Returned(defaults)
    ELSE IF ~file.readable THEN Returned(defaults)
    ELSE IF file.kind = "invalid" THEN Returned(defaults)
    ELSE IF file.kind = "undecodable" THEN Raised("UnicodeDecodeError")
    ELSE IF file.kind = "object"
    THEN Returned(UpdateDict(defaults, file.object))
    ELSE IF file.kind = "array" THEN UpdateList(defaults, file.array)
    ELSE UpdateScalar(defaults, file.scalar)

\* the steps of Config leave these alone
ConfigLeaves ==
    UNCHANGED <<catalogVars, chipdata, hexFile, cache, guiVars, loader,
                detector>>

\* Config(): "self.config = self.load_config()"; when load_config raises
\* there is no new object
NewConfig ==
    /\ \E value \in {load_config(config_file)} :
        /\ result' = [op |-> "load_config", value |-> value]
        /\ config' = IF value.tag = "dict" THEN value.dict ELSE config
    /\ config_file' = config_file
    /\ ConfigLeaves

\* Config.save_config, for what open and json.dump do: write all of it,
\* raise IOError before the file is opened, or after
save_config(d, written) ==
    IF written = "all" THEN ObjectFile(d)
    ELSE IF written = "cut" THEN ConfigFile("invalid")
    ELSE config_file

\* Config.set(key, value)
set(key, value, written) ==
    /\ \E d \in {UpdateDict(config, [k \in {key} |-> value])} :
        /\ config' = d
        /\ config_file' = save_config(d, written)
    /\ result' = NoCall
    /\ ConfigLeaves

\* the config files somebody else leaves at config_file
ConfigContents ==
    { NoConfigFile,
      UnreadableConfigFile,
      ConfigFile("invalid"),
      ConfigFile("undecodable"),
      ObjectFile(NoObject),
      ObjectFile([k \in {"language"} |-> JStr("de")]),
      ObjectFile([k \in {"theme", "font_size"} |->
                     IF k = "theme" THEN JStr("dark") ELSE JInt("12")]),
      ArrayFile(<<>>),
      ArrayFile(<<Scalar(JInt("1"))>>),
      ArrayFile(<<Scalar(JStr("abc"))>>),
      ArrayFile(<<Pair("language", JStr("tr"))>>),
      ScalarFile(JInt("5")),
      ScalarFile(JStr("")),
      ScalarFile(JStr("en")),
      ScalarFile(JNull) }

\* the file is written, removed or made unreadable from outside
EditConfigFile(file) ==
    /\ config_file' = file
    /\ config' = config
    /\ result' = NoCall
    /\ ConfigLeaves

\* the settings the GUI stores
Settings ==
    { <<"language", JStr("de")>>, <<"language", JStr("en")>>,
      <<"last_pic_type", JStr("16F887")>>, <<"last_port", JStr("COM3")>> }

InitConfig == Init

NextConfig ==
    \/ \E file \in ConfigContents : EditConfigFile(file)
    \/ NewConfig
    \/ \E s \in Settings, written \in WriteOutcomes : set(s[1], s[2], written)

SpecConfig == InitConfig /\ [][NextConfig]_vars

\* the config file holds a JSON object
HoldsObject(file) == file.exists /\ file.readable /\ file.kind = "object"

\* C29: load_config raises nothing and returns a mapping with every key of
\* the defaults, for a missing, an unreadable and a syntactically invalid
\* file and for a file whose JSON text is a list, a number, a string or
\* null; when the file holds a JSON object a key has the value of the file
\* if the file has the key and the value of the defaults otherwise
C29_LoadConfigAlwaysUsable ==
    result.op = "load_config" =>
        /\ result.value.tag = "dict"
        /\ DOMAIN defaults \subseteq DOMAIN result.value.dict
        /\ HoldsObject(config_file) =>
            \A k \in DOMAIN defaults :
                result.value.dict[k] =
                    IF k \in DOMAIN config_file.object
                    THEN config_file.object[k]
                    ELSE defaults[k]

(***************************************************************************)
(* DeviceDetector.auto_detect_programmer (SpecDetect): the thread of       *)
(* detect(), one action for each stretch of it. detector.events are the    *)
(* events given to notify_callbacks, detector.calls the calls of the       *)
(* callback of the caller, detector.callback whether the caller gave one,  *)
(* detector.raised whether an exception left detect().                     *)
(***************************************************************************)

\* the most ports detect_programmer_ports() finds
MaxPorts == 3

\* the steps of the detector leave these alone
DetectorLeaves ==
    /\ result' = NoCall
    /\ UNCHANGED <<catalogVars, chipdata, hexFile, cache, guiVars, loader,
                   config_file, config>>

\* self.notify_callbacks(event, data): a listener that raises is ignored
notify_callbacks(d, event) == [d EXCEPT !.events = Append(@, event)]

\* auto_detect_programmer(callback): the thread is started
auto_detect_programmer(callback) ==
    /\ detector.pc = "idle"
    /\ detector' = [NoDetection EXCEPT !.pc = "start", !.callback = callback]
    /\ DetectorLeaves

\* "self.is_detecting = True" and the first event
detect_started ==
    /\ detector.pc = "start"
    /\ detector' = notify_callbacks(
                       [detector EXCEPT !.is_detecting = TRUE,
                                        !.pc = "enumerate"],
                       "detection_started")
    /\ DetectorLeaves

\* detect_programmer_ports() raises, finds nothing, or finds found ports
detect_programmer_ports(raises, found) ==
    /\ detector.pc = "enumerate"
    /\ detector' =
        IF raises THEN [detector EXCEPT !.pc = "except"]
        ELSE IF found = 0
        THEN notify_callbacks([detector EXCEPT !.pc = "call_none"],
                              "no_devices_found")
        ELSE [detector EXCEPT !.pc = "testing", !.ports = found]
    /\ DetectorLeaves

\* one pass of "for port_info in programmer_ports": the port answers, does
\* not answer, or test_programmer_connection raises
test_programmer_connection(outcome) ==
    /\ detector.pc = "testing"
    /\ detector.ports > 0
    /\ detector' =
        IF outcome = "raise"
        THEN notify_callbacks([detector EXCEPT !.pc = "except"],
                              "testing_port")
        ELSE notify_callbacks(
                 [detector EXCEPT !.ports = @ - 1,
                                  !.working = @ \/ outcome = "ok"],
                 "testing_port")
    /\ DetectorLeaves

\* "if working_ports: ... else: ..." up to the call of the callback
tests_done ==
    /\ detector.pc = "testing"
    /\ detector.ports = 0
    /\ detector' =
        IF detector.working
        THEN notify_callbacks([detector EXCEPT !.pc = "call_port"],
                              "device_found")
        ELSE notify_callbacks([detector EXCEPT !.pc = "call_dead"],
                              "no_working_devices")
    /\ DetectorLeaves

\* "if callback: callback(...)" inside the try: the callback returns or
\* raises
call_in_try(raises) ==
    /\ detector.pc \in {"call_none", "call_port", "call_dead"}
    /\ detector' =
        IF ~detector.callback THEN [detector EXCEPT !.pc = "finally"]
        ELSE [detector EXCEPT
                !.calls = Append(@, IF detector.pc = "call_port"
                                    THEN "port" ELSE "error"),
                !.pc = IF raises THEN "except" ELSE "finally"]
    /\ DetectorLeaves

\* "except Exception as e": the event, then the callback once more; when
\* it raises here the exception leaves detect() after the finally
detection_error(raises) ==
    /\ detector.pc = "except"
    /\ detector' =
        LET d == notify_callbacks([detector EXCEPT !.pc = "finally"],
                                  "detection_error")
        IN  IF ~detector.callback THEN d
            ELSE [d EXCEPT !.calls = Append(@, "error"), !.raised = raises]
    /\ DetectorLeaves

\* "finally: self.is_detecting = False" and the last event
detection_finished ==
    /\ detector.pc = "finally"
    /\ detector' = notify_callbacks(
                       [detector EXCEPT !.is_detecting = FALSE,
                                        !.pc = "idle"],
                       "detection_finished")
    /\ DetectorLeaves

InitDetect == InitParse

NextDetect ==
    \/ \E callback \in BOOLEAN : auto_detect_programmer(callback)
    \/ detect_started
    \/ \E raises \in BOOLEAN, found \in 0..MaxPorts :
        detect_programmer_ports(raises, found)
    \/ \E outcome \in {"ok", "dead", "raise"} :
        test_programmer_connection(outcome)
    \/ tests_done
    \/ \E raises \in BOOLEAN : call_in_try(raises)
    \/ \E raises \in BOOLEAN : detection_error(raises)
    \/ detection_finished

SpecDetect == InitDetect /\ [][NextDetect]_vars

\* C30: in every run of auto_detect_programmer the first event is
\* detection_started, detection_finished comes last and only when
\* is_detecting is False again, and the callback of the caller is called
\* once in between, never twice: after no port was found, no port
\* answered, a port answered, the enumeration raised, and the callback
\* itself raised
C30_OneEventProtocol ==
    LET events == detector.events
        n      == Len(events)
    IN  /\ n > 0 => events[1] = "detection_started"
        /\ \A i \in 1..n :
            events[i] = "detection_finished" =>
                i = n /\ detector.pc = "idle" /\ ~detector.is_detecting
        /\ (detector.pc = "idle" /\ n > 0) =>
            /\ events[n] = "detection_finished"
            /\ detector.callback => Len(detector.calls) = 1
        /\ Len(detector.calls) <= 1

====
